---------------------------- MODULE Spec2Model ----------------------------
(***************************************************************************)
(* Elevated Vision: the per-source wall shadow geometry                    *)
(* (SourceShadowWallGeometry and its point-source subclass) and the wall   *)
(* and ambient-light hooks that drive it.                                  *)
(*                                                                         *)
(* Buffers are flat sequences of numbers, as the typed arrays are; the     *)
(* element at the 0-based index i of a typed array is buf[i + 1].          *)
(***************************************************************************)
EXTENDS Integers, Sequences, FiniteSets, TLC

(***************************************************************************)
(* Bounds of the model.                                                    *)
(***************************************************************************)
NumWalls == 3

NumLights == 2

WallIds == 1..NumWalls

Lights == 1..NumLights

(***************************************************************************)
(* Program constants.                                                      *)
(***************************************************************************)
WALL_OFFSET_PIXELS == 2

\* canvas.elevation?.minElevation ?? scene flag "elevationmin" ?? 0
MinCanvasE == 0

\* CONST.WALL_SENSE_TYPES of the host
SENSE_LIMITED == 10
SENSE_NORMAL == 20

WALL_COORDINATES ==
  {"c", "flags.wall-height.top", "flags.wall-height.bottom",
   "flags.elevatedvision.elevation.top", "flags.elevatedvision.elevation.bottom"}

WALL_RESTRICTED == {"sight", "move", "light", "sound"}

DEFAULT_WALL_CHANGES == {"c", "light", "sight", "sound", "move"}

\* The values of the aLimitedWall buffer are written as the decimal strings of
\* the floats it holds, NaN being one of them.
NaN == "NaN"

(***************************************************************************)
(* Small helpers.                                                          *)
(***************************************************************************)
Min(a, b) == IF a <= b THEN a ELSE b

Max(a, b) == IF a >= b THEN a ELSE b

Abs(a) == IF a < 0 THEN -a ELSE a

Sgn(a) == IF a < 0 THEN -1 ELSE IF a > 0 THEN 1 ELSE 0

\* The first n elements of s, and s without its first n elements
\* (TypedArray.prototype.slice(0, n) and slice(n)).
Take(s, n) == SubSeq(s, 1, n)

Drop(s, n) == SubSeq(s, n + 1, Len(s))

\* ToNumber as the typed array applies it to what the code stores in
\* aLimitedWall: a boolean becomes 1 or 0; a one-element array holding a boolean
\* is first turned into the string "true"/"false", which is not a number.
BoolToFloat(b) == IF b THEN "1" ELSE "0"

BoxedBoolToFloat(arr) == NaN

(***************************************************************************)
(* Walls.  A wall is [id, c, topZ, bottomZ, light, door, ds]: c is         *)
(* <<A.x, A.y, B.x, B.y>>, light the sense type for the light channel,     *)
(* door > 0 a door and ds = 1 an open one.  Walls are axis-aligned with    *)
(* integer coordinates, so distances and the 2-pixel extension are exact.  *)
(***************************************************************************)
isDoor(wall) == wall.door > 0

isOpen(wall) == wall.ds = 1

\* foundry.utils.orient2dFast(a, b, c)
orient2dFast(ax, ay, bx, by, cx, cy) ==
  (ay - cy) * (bx - cx) - (ax - cx) * (by - cy)

\* PIXI.Rectangle zone of a point (Cohen-Sutherland): 0 inside,
\* bit 1 left, bit 2 right, bit 4 bottom (y > bottom), bit 8 top (y < top).
ZoneBits(rect, x, y) ==
  {b \in {"L", "R", "T", "B"} :
     \/ b = "L" /\ x < rect.x0
     \/ b = "R" /\ x > rect.x1
     \/ b = "T" /\ y < rect.y0
     \/ b = "B" /\ y > rect.y1}

\* bounds.lineSegmentIntersects(A, B, {inside: true}) for an axis-aligned segment:
\* both ends inside -> inside; both ends in a common outside zone -> false;
\* otherwise the segment crosses the rectangle.
lineSegmentIntersects(rect, c) ==
  LET zA == ZoneBits(rect, c[1], c[2])
      zB == ZoneBits(rect, c[3], c[4])
  IN  IF zA = {} /\ zB = {} THEN TRUE
      ELSE IF zA \cap zB # {} THEN FALSE
      ELSE TRUE

\* The source's bounds: the square of its radius around its position.
SourceBounds(source) ==
  [x0 |-> source.x - source.radius, x1 |-> source.x + source.radius,
   y0 |-> source.y - source.radius, y1 |-> source.y + source.radius]

(***************************************************************************)
(* SourceShadowWallGeometry.  A geometry is                                *)
(*   [cls, source, sourceType, triWallMap, aWallCorner1, aWallCorner2,     *)
(*    aLimitedWall, indexBuffer]                                           *)
(* with cls "base" (SourceShadowWallGeometry) or "point"                   *)
(* (PointSourceShadowWallGeometry); source is read through the live light  *)
(* source object and so is passed to the operations that read it.          *)
(***************************************************************************)
isLimited(g, wall) == wall[g.sourceType] = SENSE_LIMITED

\* The base rule clamping the wall's top up to the light's elevation.
baseIncludeWall_ClampUp(source, wall) ==
  IF isDoor(wall) /\ isOpen(wall) THEN FALSE
  ELSE LET topZ == Max(wall.topZ, source.elevationZ)
           bottomZ == Max(wall.bottomZ, MinCanvasE)
       IN  ~(topZ <= bottomZ)

baseIncludeWall(source, wall) ==
  IF isDoor(wall) /\ isOpen(wall) THEN FALSE
  ELSE LET topZ == Min(wall.topZ, source.elevationZ)
           bottomZ == Max(wall.bottomZ, MinCanvasE)
       IN  ~(topZ <= bottomZ)

\* The point rule without the test against the light's bounds.
pointIncludeWall_NoBounds(source, wall) ==
  IF ~baseIncludeWall(source, wall) THEN FALSE
  ELSE IF orient2dFast(wall.c[1], wall.c[2], wall.c[3], wall.c[4],
                       source.x, source.y) = 0 THEN FALSE
  ELSE TRUE

pointIncludeWall(source, wall) ==
  IF ~baseIncludeWall(source, wall) THEN FALSE
  ELSE IF orient2dFast(wall.c[1], wall.c[2], wall.c[3], wall.c[4],
                       source.x, source.y) = 0 THEN FALSE
  ELSE IF ~lineSegmentIntersects(SourceBounds(source), wall.c) THEN FALSE
  ELSE TRUE

\* canvas.dimensions.sceneRect.center
SceneCenter == <<0, 5>>

\* get sourceDirection: the source position less the scene centre; normalising
\* scales it by a positive number and leaves the sign of an orientation alone.
sourceDirection(source) == <<source.x - SceneCenter[1], source.y - SceneCenter[2]>>

\* DirectionalSourceShadowWallGeometry._includeWall: no call of the base method
directionalIncludeWall(source, wall) ==
  LET d == sourceDirection(source)
      orientWall == orient2dFast(wall.c[1], wall.c[2], wall.c[3], wall.c[4],
                                 wall.c[1] + d[1], wall.c[2] + d[2])
  IN  IF orientWall = 0 THEN FALSE ELSE TRUE

\* this._includeWall(wall), dispatched on the class of the geometry
includeWall(g, source, wall) ==
  IF g.cls \in {"point", "sized"} THEN pointIncludeWall(source, wall)
  ELSE IF g.cls = "directional" THEN directionalIncludeWall(source, wall)
  ELSE baseIncludeWall(source, wall)

\* B.towardsPoint(A, ABDist + offset) for an axis-aligned wall: from <<fx, fy>>
\* towards <<tx, ty>> by dist; one of the two deltas is 0 and the other is
\* +-ABDist, so the unit vector is the pair of signs.
towardsPoint(fx, fy, tx, ty, dist) ==
  <<fx + Sgn(tx - fx) * dist, fy + Sgn(ty - fy) * dist>>

wallCornerCoordinates(wall) ==
  LET ax == wall.c[1]
      ay == wall.c[2]
      bx == wall.c[3]
      by == wall.c[4]
      ABDist == Abs(bx - ax) + Abs(by - ay)
      adjA == towardsPoint(bx, by, ax, ay, ABDist + WALL_OFFSET_PIXELS)
      adjB == towardsPoint(ax, ay, bx, by, ABDist + WALL_OFFSET_PIXELS)
  IN  [corner1 |-> adjA, corner2 |-> adjB,
       topZ |-> wall.topZ + WALL_OFFSET_PIXELS,
       bottomZ |-> wall.bottomZ - WALL_OFFSET_PIXELS]

\* [...coords, ...coords, ...coords]
Thrice(coords) == coords \o coords \o coords

coords1(wall) ==
  LET wc == wallCornerCoordinates(wall)
  IN  <<wc.corner1[1], wc.corner1[2], wc.topZ>>

coords2(wall) ==
  LET wc == wallCornerCoordinates(wall)
  IN  <<wc.corner2[1], wc.corner2[2], wc.bottomZ>>

\* ---- static buffer helpers.  A result is [threw, data]: threw is TRUE when the
\* typed-array call raises a RangeError (an offset or a source past the end).
Ret(data) == [threw |-> FALSE, data |-> data]

RangeError(buffer) == [threw |-> TRUE, data |-> buffer]

\* addToBuffer appending the chunk twice.
addToBuffer_Twice(buffer, data) ==
  IF (Len(buffer) % Len(data)) # 0 THEN buffer
  ELSE buffer \o data \o data

addToBuffer(buffer, data) ==
  IF (Len(buffer) % Len(data)) # 0 THEN buffer
  ELSE buffer \o data

\* overwriteBufferAt taking the element index for the offset.
overwriteBufferAt_Off(buffer, data, idxToOverwrite) ==
  IF (Len(buffer) % Len(data)) # 0 \/ (idxToOverwrite * Len(data)) > Len(buffer)
  THEN Ret(buffer)
  ELSE LET off == idxToOverwrite
       IN  IF off + Len(data) > Len(buffer) THEN RangeError(buffer)
           ELSE Ret([i \in 1..Len(buffer) |->
                      IF i > off /\ i <= off + Len(data) THEN data[i - off]
                      ELSE buffer[i]])

overwriteBufferAt(buffer, data, idxToOverwrite) ==
  IF (Len(buffer) % Len(data)) # 0 \/ (idxToOverwrite * Len(data)) > Len(buffer)
  THEN Ret(buffer)
  ELSE LET off == Len(data) * idxToOverwrite
       IN  IF off + Len(data) > Len(buffer) THEN RangeError(buffer)
           ELSE Ret([i \in 1..Len(buffer) |->
                      IF i > off /\ i <= off + Len(data) THEN data[i - off]
                      ELSE buffer[i]])

\* removeFromBuffer dropping the last element, whatever the index.
removeFromBuffer_Last(buffer, size, idxToRemove) ==
  IF (Len(buffer) % size) # 0 \/ (idxToRemove * size) > Len(buffer)
  THEN Ret(buffer)
  ELSE Ret(Take(buffer, Max(Len(buffer) - size, 0)))

\* removeFromBuffer dropping the first element, whatever the index.
removeFromBuffer_First(buffer, size, idxToRemove) ==
  IF (Len(buffer) % size) # 0 \/ (idxToRemove * size) > Len(buffer)
  THEN Ret(buffer)
  ELSE Ret(Drop(buffer, Min(size, Len(buffer))))

removeFromBuffer(buffer, size, idxToRemove) ==
  IF (Len(buffer) % size) # 0 \/ (idxToRemove * size) > Len(buffer)
  THEN Ret(buffer)
  ELSE LET newLn == Max(Len(buffer) - size, 0)
           head == Take(buffer, Min(idxToRemove * size, Len(buffer)))
           tail == Drop(buffer, Min((idxToRemove * size) + size, Len(buffer)))
       IN  IF newLn = 0 THEN Ret(<<>>)
           ELSE IF Len(head) > newLn THEN RangeError(buffer)
           ELSE Ret(head \o tail)

\* this._triWallMap as a function from the tracked ids to their slots
MapSize(m) == Cardinality(DOMAIN m)

MapSet(m, id, slot) ==
  [k \in (DOMAIN m) \cup {id} |-> IF k = id THEN slot ELSE m[k]]

MapDelete(m, id) == [k \in (DOMAIN m) \ {id} |-> m[k]]

EmptyMap == [k \in {} |-> 0]

\* ---- methods.  A method result is [g, threw]: the geometry as the call left it,
\* and whether the call ended in an exception (the later statements did not run).
Done(g) == [g |-> g, threw |-> FALSE]

Threw(g) == [g |-> g, threw |-> TRUE]

\* One pass of the loop of constructWallGeometry over walls[i..], the arrays and
\* the map built so far being in acc.
RECURSIVE constructLoop(_, _, _, _, _)
constructLoop(cls, source, walls, i, acc) ==
  IF i > Len(walls) THEN acc
  ELSE LET wall == walls[i]
       IN  IF ~includeWall([cls |-> cls], source, wall)
           THEN constructLoop(cls, source, walls, i + 1, acc)
           ELSE LET ltd == isLimited(acc, wall)
                    triNumber == Len(acc.indexBuffer) \div 3
                    idx == triNumber * 3
                IN  constructLoop(cls, source, walls, i + 1,
                      [acc EXCEPT
                         !.aWallCorner1 = @ \o Thrice(coords1(wall)),
                         !.aWallCorner2 = @ \o Thrice(coords2(wall)),
                         !.aLimitedWall = @ \o <<BoolToFloat(ltd), BoolToFloat(ltd),
                                                 BoolToFloat(ltd)>>,
                         !.indexBuffer = @ \o <<idx, idx + 1, idx + 2>>,
                         !.triWallMap = MapSet(@, wall.id, triNumber)])

\* constructWallGeometry walking the list from its end.
constructWallGeometry_Backwards(cls, source, walls) ==
  constructLoop(cls, source, [i \in 1..Len(walls) |-> walls[Len(walls) + 1 - i]], 1,
    [cls |-> cls, sourceType |-> source.sourceType, triWallMap |-> EmptyMap,
     aWallCorner1 |-> <<>>, aWallCorner2 |-> <<>>, aLimitedWall |-> <<>>,
     indexBuffer |-> <<>>])

\* new <cls>(source, walls): the constructor and constructWallGeometry
constructWallGeometry(cls, source, walls) ==
  constructLoop(cls, source, walls, 1,
    [cls |-> cls, sourceType |-> source.sourceType, triWallMap |-> EmptyMap,
     aWallCorner1 |-> <<>>, aWallCorner2 |-> <<>>, aLimitedWall |-> <<>>,
     indexBuffer |-> <<>>])

addWall(g, source, wall) ==
  IF wall.id \in DOMAIN g.triWallMap THEN Done(g)
  ELSE IF ~includeWall(g, source, wall) THEN Done(g)
  ELSE LET idxToAdd == MapSize(g.triWallMap)
           ltd == <<isLimited(g, wall)>>
           data3 == <<BoxedBoolToFloat(ltd), BoxedBoolToFloat(ltd), BoxedBoolToFloat(ltd)>>
           idx == idxToAdd * 3
       IN  Done([g EXCEPT
                   !.aWallCorner1 = addToBuffer(@, Thrice(coords1(wall))),
                   !.aWallCorner2 = addToBuffer(@, Thrice(coords2(wall))),
                   !.aLimitedWall = addToBuffer(@, data3),
                   !.indexBuffer = addToBuffer(@, <<idx, idx + 1, idx + 2>>),
                   !.triWallMap = MapSet(@, wall.id, idxToAdd)])

\* removeFromMap without the forEach that decrements the later slots.
removeFromMap_NoDecrement(m, id, idxToRemove) == MapDelete(m, id)

\* The tracker after the delete and the forEach that decrements the later slots.
removeFromMap(m, id, idxToRemove) ==
  LET d == MapDelete(m, id)
  IN  [k \in DOMAIN d |-> IF d[k] > idxToRemove THEN d[k] - 1 ELSE d[k]]

\* The index buffer left as the splice left it.
consecutive_Keep(buffer) == buffer

\* indexBuffer.data.map((value, index) => index)
consecutive(buffer) == [i \in 1..Len(buffer) |-> i - 1]

\* removeWall taking slot 0 for an id it does not track.
removeWall_DefaultSlot(g, id) ==
  IF FALSE THEN Done(g)
  ELSE LET idxToRemove == IF id \in DOMAIN g.triWallMap THEN g.triWallMap[id] ELSE 0
           r1 == removeFromBuffer(g.aWallCorner1, 3 * 3, idxToRemove)
           g1 == [g EXCEPT !.aWallCorner1 = r1.data]
           r2 == removeFromBuffer(g.aWallCorner2, 3 * 3, idxToRemove)
           g2 == [g1 EXCEPT !.aWallCorner2 = r2.data]
           r3 == removeFromBuffer(g.aLimitedWall, 1 * 3, idxToRemove)
           g3 == [g2 EXCEPT !.aLimitedWall = r3.data]
           r4 == removeFromBuffer(g.indexBuffer, 3, idxToRemove)
       IN  IF r1.threw THEN Threw(g)
           ELSE IF r2.threw THEN Threw(g1)
           ELSE IF r3.threw THEN Threw(g2)
           ELSE IF r4.threw THEN Threw(g3)
           ELSE Done([g3 EXCEPT
                        !.triWallMap = removeFromMap(@, id, idxToRemove),
                        !.indexBuffer = consecutive(r4.data)])

removeWall(g, id) ==
  IF id \notin DOMAIN g.triWallMap THEN Done(g)
  ELSE LET idxToRemove == g.triWallMap[id]
           r1 == removeFromBuffer(g.aWallCorner1, 3 * 3, idxToRemove)
           g1 == [g EXCEPT !.aWallCorner1 = r1.data]
           r2 == removeFromBuffer(g.aWallCorner2, 3 * 3, idxToRemove)
           g2 == [g1 EXCEPT !.aWallCorner2 = r2.data]
           r3 == removeFromBuffer(g.aLimitedWall, 1 * 3, idxToRemove)
           g3 == [g2 EXCEPT !.aLimitedWall = r3.data]
           r4 == removeFromBuffer(g.indexBuffer, 3, idxToRemove)
       IN  IF r1.threw THEN Threw(g)
           ELSE IF r2.threw THEN Threw(g1)
           ELSE IF r3.threw THEN Threw(g2)
           ELSE IF r4.threw THEN Threw(g3)
           ELSE Done([g3 EXCEPT
                        !.triWallMap = removeFromMap(@, id, idxToRemove),
                        !.indexBuffer = consecutive(r4.data)])

\* updateWall without the test that removes a wall no longer included.
updateWall_NoRemove(g, source, wall, changes) ==
  IF wall.id \notin DOMAIN g.triWallMap THEN addWall(g, source, wall)
  ELSE LET idxToUpdate == g.triWallMap[wall.id]
           coordsChanged == WALL_COORDINATES \cap changes # {}
           r1 == overwriteBufferAt(g.aWallCorner1, Thrice(coords1(wall)), idxToUpdate)
           g1 == IF coordsChanged THEN [g EXCEPT !.aWallCorner1 = r1.data] ELSE g
           r2 == overwriteBufferAt(g.aWallCorner2, Thrice(coords2(wall)), idxToUpdate)
           g2 == IF coordsChanged THEN [g1 EXCEPT !.aWallCorner2 = r2.data] ELSE g
           ltd == <<isLimited(g, wall)>>
           data3 == <<BoxedBoolToFloat(ltd), BoxedBoolToFloat(ltd), BoxedBoolToFloat(ltd)>>
           r3 == overwriteBufferAt(g.aLimitedWall, data3, idxToUpdate)
       IN  IF coordsChanged /\ r1.threw THEN Threw(g)
           ELSE IF coordsChanged /\ r2.threw THEN Threw(g1)
           ELSE IF g.sourceType \in changes
                THEN (IF r3.threw THEN Threw(g2)
                      ELSE Done([g2 EXCEPT !.aLimitedWall = r3.data]))
                ELSE Done(g2)

updateWall(g, source, wall, changes) ==
  IF wall.id \notin DOMAIN g.triWallMap THEN addWall(g, source, wall)
  ELSE IF ~includeWall(g, source, wall) THEN removeWall(g, wall.id)
  ELSE LET idxToUpdate == g.triWallMap[wall.id]
           coordsChanged == WALL_COORDINATES \cap changes # {}
           r1 == overwriteBufferAt(g.aWallCorner1, Thrice(coords1(wall)), idxToUpdate)
           g1 == IF coordsChanged THEN [g EXCEPT !.aWallCorner1 = r1.data] ELSE g
           r2 == overwriteBufferAt(g.aWallCorner2, Thrice(coords2(wall)), idxToUpdate)
           g2 == IF coordsChanged THEN [g1 EXCEPT !.aWallCorner2 = r2.data] ELSE g
           ltd == <<isLimited(g, wall)>>
           data3 == <<BoxedBoolToFloat(ltd), BoxedBoolToFloat(ltd), BoxedBoolToFloat(ltd)>>
           r3 == overwriteBufferAt(g.aLimitedWall, data3, idxToUpdate)
       IN  IF coordsChanged /\ r1.threw THEN Threw(g)
           ELSE IF coordsChanged /\ r2.threw THEN Threw(g1)
           ELSE IF g.sourceType \in changes
                THEN (IF r3.threw THEN Threw(g2)
                      ELSE Done([g2 EXCEPT !.aLimitedWall = r3.data]))
                ELSE Done(g2)

\* walls.forEach(w => this.updateWall(w, { changes: new Set(), update: false }))
RECURSIVE refreshLoop(_, _, _, _)
refreshLoop(g, source, walls, i) ==
  IF i > Len(walls) THEN Done(g)
  ELSE LET r == updateWall(g, source, walls[i], {})
       IN  IF r.threw THEN r ELSE refreshLoop(r.g, source, walls, i + 1)

refreshWalls(g, source, walls) == refreshLoop(g, source, walls, 1)

\* get hasLimitedWalls: dat.some(x => x); NaN and 0 are falsy
hasLimitedWalls(g) ==
  \E i \in 1..Len(g.aLimitedWall) : g.aLimitedWall[i] \notin {NaN, "0"}

(***************************************************************************)
(* The wall shadow shaders.  A float is held as a whole number of          *)
(* sixteenths (One is 1.0), a vec4 as a tuple of four of them.             *)
(***************************************************************************)
One == 16

LIMITED_WALL == 10

PROXIMATE_WALL == 30

DISTANCE_WALL == 40

\* vec4 noShadow(), SHADOW not defined
noShadow == <<One, One, One, One>>

\* lightEncoding without the early return for light == 1.0
lightEncoding_NoEarly(light, fWallSenseType) ==
  LET ltd == IF fWallSenseType = LIMITED_WALL THEN 1 ELSE 0
      ltdInv == 1 - ltd
  IN  <<(light * ltdInv) + (ltd * One), One - ((One \div 2) * ltd),
        (light * ltd) + (ltdInv * One), One>>

\* vec4 lightEncoding(in float light), SHADOW not defined
lightEncoding(light, fWallSenseType) ==
  IF light = One THEN noShadow
  ELSE LET ltd == IF fWallSenseType = LIMITED_WALL THEN 1 ELSE 0
           ltdInv == 1 - ltd
       IN  <<(light * ltdInv) + (ltd * One), One - ((One \div 2) * ltd),
             (light * ltd) + (ltdInv * One), One>>

distanceSquared(a, b) ==
  ((a[1] - b[1]) * (a[1] - b[1])) + ((a[2] - b[2]) * (a[2] - b[2]))

\* The threshold test of both fragment stages
thresholdApplies(in) ==
  /\ in.fWallSenseType \in {DISTANCE_WALL, PROXIMATE_WALL}
  /\ in.fThresholdRadius2 # 0
  /\ distanceSquared(in.vVertexPosition, in.uLightPosition) < in.fThresholdRadius2

\* The point stage taking a fragment on the wall for one before it.
pointFragmentMain_Closed(in) ==
  IF in.elevation > in.uLightPosition[3]
  THEN lightEncoding(0, in.fWallSenseType)
  ELSE IF in.vBaryX >= in.fWallRatio THEN noShadow
  ELSE IF thresholdApplies(in) THEN noShadow
  ELSE IF in.elevation > in.fWallHeightsX THEN noShadow
  ELSE lightEncoding(in.shadowLight, in.fWallSenseType)

\* The point stage testing the wall before the terrain.
pointFragmentMain_WallFirst(in) ==
  IF in.vBaryX > in.fWallRatio THEN noShadow
  ELSE IF in.elevation > in.uLightPosition[3]
  THEN lightEncoding(0, in.fWallSenseType)
  ELSE IF thresholdApplies(in) THEN noShadow
  ELSE IF in.elevation > in.fWallHeightsX THEN noShadow
  ELSE lightEncoding(in.shadowLight, in.fWallSenseType)

\* ShadowWallShader.fragmentShader main: the fragment's colour.  in.shadowLight
\* stands for 1.0 - between(farShadowRatio, nearShadowRatio, vBary.x).
pointFragmentMain(in) ==
  IF in.elevation > in.uLightPosition[3]
  THEN lightEncoding(0, in.fWallSenseType)
  ELSE IF in.vBaryX > in.fWallRatio THEN noShadow
  ELSE IF thresholdApplies(in) THEN noShadow
  ELSE IF in.elevation > in.fWallHeightsX THEN noShadow
  ELSE lightEncoding(in.shadowLight, in.fWallSenseType)

\* DirectionalShadowWallShader.fragmentShader main.  in.outsideShadow stands for
\* between(farRatios.z, nearRatios.x, vBary.x) == 0.0 and in.shadowLight for
\* totalLight.
directionalFragmentMain(in) ==
  IF in.vBaryX > in.fWallRatio THEN noShadow
  ELSE IF in.outsideShadow THEN noShadow
  ELSE lightEncoding(in.shadowLight, in.fWallSenseType)

\* The sized-point stage without the threshold test.
sizedFragmentMain_NoThreshold(in) ==
  IF in.vBaryX > in.fWallRatio THEN noShadow
  ELSE IF in.outsideShadow THEN noShadow
  ELSE lightEncoding(in.shadowLight, in.fWallSenseType)

\* SizedPointSourceShadowWallShader.fragmentShader main.  in.outsideShadow
\* stands for between(farRatios.z, nearRatios.x, vBary.x) == 0.0 and
\* in.shadowLight for totalLight.
sizedFragmentMain(in) ==
  IF in.vBaryX > in.fWallRatio THEN noShadow
  ELSE IF thresholdApplies(in) THEN noShadow
  ELSE IF in.outsideShadow THEN noShadow
  ELSE lightEncoding(in.shadowLight, in.fWallSenseType)

\* Two colours blended channel by channel taking the smaller.
multiplyBlend_Min(dst, src) ==
  [i \in 1..4 |-> IF dst[i] <= src[i] THEN dst[i] ELSE src[i]]

\* PIXI.BLEND_MODES.MULTIPLY of the shadow meshes: the colour drawn is multiplied,
\* channel by channel, into the colour already in the target
multiplyBlend(dst, src) == [i \in 1..4 |-> (dst[i] * src[i]) \div One]

\* clamp(x, minVal, maxVal): min(max(x, minVal), maxVal); GLSL leaves the result
\* undefined when minVal > maxVal, where an implementation may as well compute
\* max(min(x, maxVal), minVal).  The set of the values a build can produce.
clamp(x, minVal, maxVal) ==
  IF minVal <= maxVal THEN {Min(Max(x, minVal), maxVal)}
  ELSE {Min(Max(x, minVal), maxVal), Max(Min(x, maxVal), minVal)}

\* shadow = side1Shadow * side2Shadow * farShadow * nearShadow
penumbraShadow(p) ==
  (((p.side1Shadow * p.side2Shadow) \div One) * ((p.farShadow * p.nearShadow) \div One))
    \div One

\* totalLight = clamp(0.0, 1.0, 1.0 - shadow): the values it can take
totalLight(p) == clamp(0, One, One - penumbraShadow(p))

\* A shader factory's result: whether console.error was called, whether the
\* call threw, and the uLightPosition uniform of the shader it returned.
Created(reported, threw, uLightPosition) ==
  [reported |-> reported, threw |-> threw, uLightPosition |-> uLightPosition]

Undefined == <<>>

\* TestGeometryShader.create(lightPosition, defaultUniforms): reading .x of an
\* undefined lightPosition throws a TypeError
testGeometryShaderCreate(lightPosition) ==
  IF lightPosition = Undefined THEN Created(TRUE, TRUE, Undefined)
  ELSE Created(FALSE, FALSE, lightPosition)

\* ShadowWallShader.create(defaultUniforms): the class default [0, 0, 0] stays
\* unless defaultUniforms brings a uLightPosition
shadowWallShaderCreate(uLightPosition) ==
  IF uLightPosition = Undefined THEN Created(FALSE, FALSE, <<0, 0, 0>>)
  ELSE Created(FALSE, FALSE, uLightPosition)

\* Point3d.fromPointSource(source)
fromPointSource(src) == <<src.x, src.y, src.elevationZ>>

\* new ShadowWallPointSourceMesh(source, geometry, shader): without a shader it
\* makes one from the uniforms it fills in, which name uSourceLightPosition.
ShadowWallPointSourceMesh(src, shader) ==
  LET uniforms == [uSourceLightPosition |-> fromPointSource(src)]
      made == IF shader = Undefined
              THEN shadowWallShaderCreate(
                     IF "uLightPosition" \in DOMAIN uniforms
                     THEN uniforms["uLightPosition"] ELSE Undefined)
              ELSE shader
  IN  [source |-> src, shader |-> made, blendMode |-> "MULTIPLY"]

\* ShadowWallPointSourceMesh.updateLightPosition()
updateLightPosition(mesh) ==
  [mesh EXCEPT !.shader.uLightPosition = fromPointSource(mesh.source)]

(***************************************************************************)
(* Inputs.                                                                 *)
(***************************************************************************)
\* Where wall id stands: two places each.  The second place of wall 1 is on a
\* line through the light position, that of wall 2 lies outside the light's bounds.
Home(id) == <<0, id, 10, id>>

Moved(id) ==
  IF id = 1 THEN <<0, 5, 10, 5>>
  ELSE IF id = 2 THEN <<20, 0, 20, 10>>
  ELSE <<id, 6, id, 14>>

\* Wall 1 is the door of the scene, closed or open (<<door, ds>> is <<1, 0>> or
\* <<1, 1>>) and always high; the other walls are no doors and stand high or low.
\* Wall 2 is the limited wall of the scene.
TopZsOf(id) == IF id = 1 THEN {8} ELSE {0, 8}

DoorsOf(id) == IF id = 1 THEN {<<1, 0>>, <<1, 1>>} ELSE {<<0, 0>>}

LightOf(id) == IF id = 2 THEN SENSE_LIMITED ELSE SENSE_NORMAL

WallsOf(id) ==
  {[id |-> id, c |-> c, topZ |-> t, bottomZ |-> 0, light |-> LightOf(id),
    door |-> d[1], ds |-> d[2]] :
     c \in {Home(id), Moved(id)}, t \in TopZsOf(id), d \in DoorsOf(id)}

WallInputs == UNION {WallsOf(id) : id \in WallIds}

ChangeSets == {{}, {"c"}, {"light"}, DEFAULT_WALL_CHANGES}

\* The wall lists handed to the constructor: every wall id once, in id order,
\* each wall at its first place.
InitWalls == {w \in WallInputs : w.c = Home(w.id)}

InitLists ==
  {ws \in [WallIds -> InitWalls] : \A i \in WallIds : ws[i].id = i}

\* The wall lists handed to refreshWalls: every wall id once, in id order, each
\* wall as it may stand in the scene.
WallLists ==
  {ws \in [WallIds -> WallInputs] : \A i \in WallIds : ws[i].id = i}

TheSource ==
  [x |-> 5, y |-> 5, elevationZ |-> 4, radius |-> 10, sourceType |-> "light"]

(***************************************************************************)
(* State.  geom is one geometry and source its light source.  last, written *)
(* and snap record the history the properties speak of: the last call and   *)
(* the path it took, the corner coordinates most recently written for each  *)
(* tracked wall, and the geometry as it was before an addWall of an         *)
(* untracked wall.                                                          *)
(***************************************************************************)
VARIABLES geom, source, last, written, snap

\* The scene and its lights, for the hooks: placeables is canvas.walls.placeables
\* (a function from the ids of the walls of the scene to the walls), lightSources
\* the state of each light source of canvas.effects.lightSources, ev the record
\* each source carries under the module id, and hook the last hook that ran.
VARIABLES placeables, lightSources, ev, hook

\* canvas.effects.EVshadows: for each light, how many of the quad meshes made for
\* it are children of the container.
VARIABLES EVshadows

\* The last call of a function that keeps no state: its name, its arguments and
\* what it returned.
VARIABLES pure

\* The shadow patches: libWrapperShaderIds is the array of ids the module keeps,
\* libWrapper the targets on which libWrapper holds a wrapper of the module,
\* basic whether the wrappers of registerPatches are among them, and patch the
\* last call of the patching functions.  A target's id is the target itself.
VARIABLES libWrapperShaderIds, libWrapper, basic, patch

\* The token tools of ui.controls, as the names of the tools in order, and the
\* last call that touched them.
VARIABLES tokenTools, flyCall

patchVars == <<libWrapperShaderIds, libWrapper, basic, patch>>

controlVars == <<tokenTools, flyCall>>

geomVars == <<geom, source, last, written, snap>>

hookVars == <<placeables, lightSources, ev, hook, EVshadows>>

vars ==
  <<geom, source, last, written, snap, placeables, lightSources, ev, hook,
    EVshadows, pure, libWrapperShaderIds, libWrapper, basic, patch, tokenTools,
    flyCall>>

NoSnap == [cls |-> "none"]

\* The record of a call: its path through the method, the slot it removed (0 when
\* it removed none), whether it is a removeWall right after a removeWall of the
\* same id that removed the wall, and, for a removeWall right after an addWall of
\* the same id on which the wall was untracked, the path of that addWall.
Call(op, id, path, slot, threw) ==
  [op |-> op, id |-> id, path |-> path, slot |-> slot, threw |-> threw,
   again |-> (op = "removeWall" /\ last.op = "removeWall" /\ last.id = id
              /\ last.path = "remove"),
   afterAdd |-> IF op = "removeWall" /\ last.op = "addWall" /\ last.id = id
                   /\ last.path \in {"append", "excluded"}
                THEN last.path ELSE "no"]

\* The path a call takes through addWall / updateWall / removeWall.
addPath(g, src, wall) ==
  IF wall.id \in DOMAIN g.triWallMap THEN "tracked"
  ELSE IF ~includeWall(g, src, wall) THEN "excluded"
  ELSE "append"

removePath(g, id) ==
  IF id \in DOMAIN g.triWallMap THEN "remove" ELSE "untracked"

updatePath(g, src, wall, changes) ==
  IF wall.id \notin DOMAIN g.triWallMap THEN addPath(g, src, wall)
  ELSE IF ~includeWall(g, src, wall) THEN "remove"
  ELSE IF WALL_COORDINATES \cap changes # {}
       THEN (IF g.sourceType \in changes THEN "overwrite both" ELSE "overwrite corners")
       ELSE (IF g.sourceType \in changes THEN "overwrite limited" ELSE "overwrite none")

slotOf(g, id) == IF id \in DOMAIN g.triWallMap THEN g.triWallMap[id] ELSE 0

\* The coordinates a call writes for a wall, kept per tracked wall.
Coords(wall) == [c1 |-> coords1(wall), c2 |-> coords2(wall)]

noteWrite(wr, g, src, wall, changes) ==
  LET path == updatePath(g, src, wall, changes)
  IN  IF path \in {"append", "overwrite both", "overwrite corners"}
      THEN MapSet(wr, wall.id, Coords(wall))
      ELSE IF path = "remove" THEN MapDelete(wr, wall.id)
      ELSE wr

RECURSIVE noteRefresh(_, _, _, _, _)
noteRefresh(wr, g, src, walls, i) ==
  IF i > Len(walls) THEN wr
  ELSE noteRefresh(noteWrite(wr, g, src, walls[i], {}),
                   updateWall(g, src, walls[i], {}).g, src, walls, i + 1)

RECURSIVE noteConstruct(_, _, _, _, _)
noteConstruct(wr, cls, src, walls, i) ==
  IF i > Len(walls) THEN wr
  ELSE noteConstruct(IF includeWall([cls |-> cls], src, walls[i])
                     THEN MapSet(wr, walls[i].id, Coords(walls[i])) ELSE wr,
                     cls, src, walls, i + 1)

\* A geometry reference that holds nothing, and the record of a source on which
\* no hook has run yet.
UndefinedGeom == [cls |-> "undefined"]

NoEv ==
  [has |-> FALSE, wallGeometry |-> UndefinedGeom, geom |-> UndefinedGeom,
   shadowMesh |-> "undefined", mesh |-> "undefined",
   shadowRenderer |-> "undefined", shadowQuadMesh |-> "undefined"]

\* A light source object, in or out of canvas.effects.lightSources.
Unlisted(state) ==
  [x |-> state.x, y |-> state.y, elevationZ |-> state.elevationZ,
   radius |-> state.radius, sourceType |-> state.sourceType, listed |-> FALSE]

Listed(state) == [Unlisted(state) EXCEPT !.listed = TRUE]

NoHook == [name |-> "none", light |-> 0, wall |-> 0, flags |-> {}, threw |-> FALSE]

NoCall == [fn |-> "none"]

NoPatch == [fn |-> "none", algorithm |-> "unset", threw |-> FALSE]

PatchesIdle ==
  /\ libWrapperShaderIds = <<>>
  /\ libWrapper = {}
  /\ basic = FALSE
  /\ patch = NoPatch

NoFlyCall == [fn |-> "none"]

ControlsIdle ==
  /\ tokenTools = <<>>
  /\ flyCall = NoFlyCall

\* Nothing of the scene, the shaders or the patches has been touched.
SceneIdle ==
  /\ pure = NoCall
  /\ PatchesIdle
  /\ placeables = EmptyMap
  /\ lightSources = [l \in Lights |-> Unlisted(TheSource)]
  /\ ev = [l \in Lights |-> NoEv]
  /\ hook = NoHook
  /\ EVshadows = [l \in Lights |-> 0]

HooksIdle == SceneIdle /\ ControlsIdle

Init ==
  /\ HooksIdle
  /\ source = TheSource
  /\ \E cls \in {"base", "point"}, ws \in InitLists :
       /\ geom = constructWallGeometry(cls, source, ws)
       /\ written = noteConstruct(EmptyMap, cls, source, ws, 1)
  /\ last = [op |-> "construct", id |-> 0, path |-> "construct", slot |-> 0,
             threw |-> FALSE, again |-> FALSE, afterAdd |-> "no"]
  /\ snap = NoSnap

AddWallCall(wall) ==
  LET r == addWall(geom, source, wall)
  IN  /\ geom' = r.g
      /\ last' = Call("addWall", wall.id, addPath(geom, source, wall), 0, r.threw)
      /\ written' = IF addPath(geom, source, wall) = "append"
                    THEN MapSet(written, wall.id, Coords(wall)) ELSE written
      /\ snap' = IF wall.id \notin DOMAIN geom.triWallMap THEN geom ELSE NoSnap
      /\ UNCHANGED <<source, hookVars, pure, patchVars, controlVars>>

UpdateWallCall(wall, changes) ==
  LET r == updateWall(geom, source, wall, changes)
  IN  /\ geom' = r.g
      /\ last' = Call("updateWall", wall.id, updatePath(geom, source, wall, changes),
                      IF includeWall(geom, source, wall) THEN 0
                      ELSE slotOf(geom, wall.id),
                      r.threw)
      /\ written' = noteWrite(written, geom, source, wall, changes)
      /\ snap' = NoSnap
      /\ UNCHANGED <<source, hookVars, pure, patchVars, controlVars>>

RemoveWallCall(id) ==
  LET r == removeWall(geom, id)
      call == Call("removeWall", id, removePath(geom, id), slotOf(geom, id), r.threw)
  IN  /\ geom' = r.g
      /\ last' = call
      /\ written' = MapDelete(written, id)
      /\ snap' = IF call.afterAdd # "no" THEN snap ELSE NoSnap
      /\ UNCHANGED <<source, hookVars, pure, patchVars, controlVars>>

RefreshWallsCall(walls) ==
  LET r == refreshWalls(geom, source, walls)
  IN  /\ geom' = r.g
      /\ last' = Call("refreshWalls", 0, "refresh", 0, r.threw)
      /\ written' = noteRefresh(written, geom, source, walls, 1)
      /\ snap' = NoSnap
      /\ UNCHANGED <<source, hookVars, pure, patchVars, controlVars>>

Next ==
  \/ \E wall \in WallInputs : AddWallCall(wall)
  \/ \E wall \in WallInputs, changes \in ChangeSets : UpdateWallCall(wall, changes)
  \/ \E id \in WallIds : RemoveWallCall(id)
  \/ \E walls \in WallLists : RefreshWallsCall(walls)

Spec == Init /\ [][Next]_vars

(***************************************************************************)
(* The hooks.  Each light l of the scene has a light source object,         *)
(* lightSources[l]: its position, elevation and radius, and whether it is   *)
(* listed in canvas.effects.lightSources.  ev[l] is lightSource[MODULE_ID]. *)
(***************************************************************************)
\* The states a light source is put in: as placed, lowered to the ground,
\* moved onto the line of wall 2, shrunk to a small radius.
\* The most quad meshes made for one light the container is followed to.
MaxQuads == 2

LightStates ==
  {TheSource, [TheSource EXCEPT !.elevationZ = 0], [TheSource EXCEPT !.y = 2],
   [TheSource EXCEPT !.radius = 2]}

\* The first light is put in each of the states; the others stay as placed.
LightStatesOf(l) == IF l = 1 THEN LightStates ELSE {TheSource}

\* The walls the scene is built from: the door (wall 1), closed or open, and the
\* limited wall (wall 2), low or high, each where it first stands.
SceneWalls == {w \in InitWalls : w.id < NumWalls}

\* canvas.walls.placeables as the array the geometry walks
RECURSIVE placeablesFrom(_, _)
placeablesFrom(p, id) ==
  IF id > NumWalls THEN <<>>
  ELSE (IF id \in DOMAIN p THEN <<p[id]>> ELSE <<>>) \o placeablesFrom(p, id + 1)

placeablesList(p) == placeablesFrom(p, 1)

\* The render flags the host raises for a change of a light.
renderFlags(old, new) ==
  (IF old.x # new.x \/ old.y # new.y THEN {"refreshPosition"} ELSE {})
    \cup (IF old.elevationZ # new.elevationZ THEN {"refreshElevation"} ELSE {})
    \cup (IF old.radius # new.radius THEN {"refreshRadius"} ELSE {})

\* Object.keys(flattenObject(data)) of the differential data of a wall update
wallChanges(old, new) ==
  (IF old.c # new.c THEN {"c"} ELSE {})
    \cup (IF old.topZ # new.topZ THEN {"flags.wall-height.top"} ELSE {})
    \cup (IF old.light # new.light THEN {"light"} ELSE {})
    \cup (IF old.door # new.door THEN {"door"} ELSE {})
    \cup (IF old.ds # new.ds THEN {"ds"} ELSE {})

\* A hook result is [ev, threw]: the records as the hook left them, and whether
\* it ended in an exception.
HookDone(evs) == [ev |-> evs, threw |-> FALSE]

HookThrew(evs) == [ev |-> evs, threw |-> TRUE]

initializeLightSourceShadersHook(e, lightSource, walls) ==
  [has |-> TRUE,
   wallGeometry |-> constructWallGeometry("point", lightSource, walls),
   geom |-> e.geom,
   shadowMesh |-> "live",
   mesh |-> e.mesh,
   shadowRenderer |-> "live",
   shadowQuadMesh |-> "live"]

refreshAmbientLightHook(e, lightSource, walls, flags) ==
  IF ~e.has THEN [e |-> e, threw |-> FALSE]
  ELSE LET any == flags \cap {"refreshPosition", "refreshElevation", "refreshRadius"} # {}
           r == IF any /\ e.geom.cls # "undefined"
                THEN refreshWalls(e.geom, lightSource, walls)
                ELSE Done(e.geom)
           e1 == [e EXCEPT !.geom = r.g]
       IN  IF r.threw THEN [e |-> e1, threw |-> TRUE]
           ELSE IF "refreshPosition" \in flags
                THEN [e |-> e1, threw |-> e1.shadowQuadMesh = "undefined"]
           ELSE IF "refreshRadius" \in flags
                THEN [e |-> e1, threw |-> e1.shadowQuadMesh = "undefined"]
           ELSE [e |-> e1, threw |-> FALSE]

destroyAmbientLightHook(e) ==
  IF ~e.has THEN e
  ELSE [e EXCEPT !.shadowQuadMesh = "undefined",
                 !.shadowRenderer = "undefined",
                 !.mesh = "undefined",
                 !.wallGeometry = UndefinedGeom]

\* The children of the shadows container made for a light, after the hooks:
\* initialisation adds the new quad mesh, destruction removes the one the record
\* refers to.
addChild(n) == n + 1

removeChild(e, n) ==
  IF e.has /\ e.shadowQuadMesh # "undefined" THEN n - 1 ELSE n

RECURSIVE createWallLoop(_, _, _, _)
createWallLoop(evs, srcs, wall, l) ==
  IF l > NumLights THEN HookDone(evs)
  ELSE IF ~srcs[l].listed \/ ~evs[l].has \/ evs[l].wallGeometry.cls = "undefined"
       THEN createWallLoop(evs, srcs, wall, l + 1)
  ELSE LET r == addWall(evs[l].wallGeometry, srcs[l], wall)
           evs1 == [evs EXCEPT ![l].wallGeometry = r.g]
       IN  IF r.threw THEN HookThrew(evs1)
           ELSE createWallLoop(evs1, srcs, wall, l + 1)

createWallHook(evs, srcs, wall) == createWallLoop(evs, srcs, wall, 1)

RECURSIVE updateWallLoop(_, _, _, _, _)
updateWallLoop(evs, srcs, wall, changes, l) ==
  IF l > NumLights THEN HookDone(evs)
  ELSE IF ~srcs[l].listed \/ ~evs[l].has \/ evs[l].wallGeometry.cls = "undefined"
       THEN updateWallLoop(evs, srcs, wall, changes, l + 1)
  ELSE LET r == updateWall(evs[l].wallGeometry, srcs[l], wall, changes)
           evs1 == [evs EXCEPT ![l].wallGeometry = r.g]
       IN  IF r.threw THEN HookThrew(evs1)
           ELSE updateWallLoop(evs1, srcs, wall, changes, l + 1)

updateWallHook(evs, srcs, wall, changes) ==
  IF (WALL_COORDINATES \cap changes = {}) /\ (WALL_RESTRICTED \cap changes = {})
  THEN HookDone(evs)
  ELSE updateWallLoop(evs, srcs, wall, changes, 1)

RECURSIVE deleteWallLoop(_, _, _, _)
deleteWallLoop(evs, srcs, id, l) ==
  IF l > NumLights THEN HookDone(evs)
  ELSE IF ~srcs[l].listed \/ ~evs[l].has THEN deleteWallLoop(evs, srcs, id, l + 1)
  ELSE IF evs[l].wallGeometry.cls = "undefined" THEN HookThrew(evs)
  ELSE LET r == removeWall(evs[l].wallGeometry, id)
           evs1 == [evs EXCEPT ![l].wallGeometry = r.g]
       IN  IF r.threw THEN HookThrew(evs1)
           ELSE deleteWallLoop(evs1, srcs, id, l + 1)

deleteWallHook(evs, srcs, id) == deleteWallLoop(evs, srcs, id, 1)

HookRan(name, l, id, flags, threw) ==
  [name |-> name, light |-> l, wall |-> id, flags |-> flags, threw |-> threw]

InitHooks ==
  /\ HooksIdle
  /\ source = TheSource
  /\ geom = constructWallGeometry("point", TheSource, <<>>)
  /\ written = EmptyMap
  /\ last = [op |-> "construct", id |-> 0, path |-> "construct", slot |-> 0,
             threw |-> FALSE, again |-> FALSE, afterAdd |-> "no"]
  /\ snap = NoSnap

\* A light source is initialised: a new one in some state when the light has
\* none listed, the listed one again otherwise.
InitializeLightSourceShaders(l, state) ==
  LET fresh == ~lightSources[l].listed
      src == IF fresh THEN Listed(state) ELSE lightSources[l]
      e == IF fresh THEN NoEv ELSE ev[l]
  IN  /\ (~fresh) => state = TheSource
      /\ EVshadows[l] < MaxQuads
      /\ EVshadows' = [EVshadows EXCEPT ![l] = addChild(EVshadows[l])]
      /\ lightSources' = [lightSources EXCEPT ![l] = src]
      /\ ev' = [ev EXCEPT ![l] =
                  initializeLightSourceShadersHook(e, src, placeablesList(placeables))]
      /\ hook' = HookRan("initializeLightSourceShaders", l, 0, {}, FALSE)
      /\ UNCHANGED <<placeables, geomVars, pure, patchVars, controlVars>>

\* A listed light is changed (or refreshed as it stands) and its refresh hook runs.
RefreshAmbientLight(l, state) ==
  /\ lightSources[l].listed
  /\ LET src == Listed(state)
         flags == renderFlags(lightSources[l], src)
         r == refreshAmbientLightHook(ev[l], src, placeablesList(placeables), flags)
     IN  /\ lightSources' = [lightSources EXCEPT ![l] = src]
         /\ ev' = [ev EXCEPT ![l] = r.e]
         /\ hook' = HookRan("refreshAmbientLight", l, 0, flags, r.threw)
  /\ UNCHANGED <<placeables, EVshadows, geomVars, pure, patchVars, controlVars>>

\* A light is destroyed.  The host's handling of the source is not part of the
\* module: the source either leaves the collection of light sources or stays
\* listed with the record the hook left on it.
DestroyAmbientLight(l, stays) ==
  /\ lightSources[l].listed
  /\ ev' = [ev EXCEPT ![l] = destroyAmbientLightHook(ev[l])]
  /\ EVshadows' = [EVshadows EXCEPT ![l] = removeChild(ev[l], EVshadows[l])]
  /\ lightSources' = [lightSources EXCEPT ![l] =
                        IF stays THEN lightSources[l] ELSE Unlisted(TheSource)]
  /\ hook' = HookRan("destroyAmbientLight", l, 0, {}, FALSE)
  /\ UNCHANGED <<placeables, geomVars, pure, patchVars, controlVars>>

CreateWall(wall) ==
  /\ wall.id \notin DOMAIN placeables
  /\ LET r == createWallHook(ev, lightSources, wall)
     IN  /\ ev' = r.ev
         /\ hook' = HookRan("createWall", 0, wall.id, {}, r.threw)
  /\ placeables' = MapSet(placeables, wall.id, wall)
  /\ UNCHANGED <<lightSources, EVshadows, geomVars, pure, patchVars, controlVars>>

UpdateWall(wall) ==
  /\ wall.id \in DOMAIN placeables
  /\ LET changes == wallChanges(placeables[wall.id], wall)
         r == updateWallHook(ev, lightSources, wall, changes)
     IN  /\ ev' = r.ev
         /\ hook' = HookRan("updateWall", 0, wall.id, changes, r.threw)
  /\ placeables' = MapSet(placeables, wall.id, wall)
  /\ UNCHANGED <<lightSources, EVshadows, geomVars, pure, patchVars, controlVars>>

DeleteWall(id) ==
  /\ id \in DOMAIN placeables
  /\ LET r == deleteWallHook(ev, lightSources, id)
     IN  /\ ev' = r.ev
         /\ hook' = HookRan("deleteWall", 0, id, {}, r.threw)
  /\ placeables' = MapDelete(placeables, id)
  /\ UNCHANGED <<lightSources, EVshadows, geomVars, pure, patchVars, controlVars>>

NextHooks ==
  \/ \E l \in Lights :
       \E state \in LightStatesOf(l) : InitializeLightSourceShaders(l, state)
  \/ \E l \in Lights :
       \E state \in LightStatesOf(l) : RefreshAmbientLight(l, state)
  \/ \E l \in Lights, stays \in BOOLEAN : DestroyAmbientLight(l, stays)
  \/ \E wall \in SceneWalls : CreateWall(wall)
  \/ \E wall \in SceneWalls : UpdateWall(wall)
  \/ \E id \in WallIds : DeleteWall(id)

SpecHooks == InitHooks /\ [][NextHooks]_vars

(***************************************************************************)
(* Properties of one geometry under direct calls (Spec).                   *)
(***************************************************************************)
\* The tracked-wall count, the 3-vertex block of a slot in a buffer whose
\* vertices hold size values, and a buffer without that block.
Tracked(g) == DOMAIN g.triWallMap

NTracked(g) == Cardinality(Tracked(g))

Block(buffer, size, slot) ==
  SubSeq(buffer, (3 * size * slot) + 1, 3 * size * (slot + 1))

WithoutBlock(buffer, size, slot) ==
  [i \in 1..(Len(buffer) - (3 * size)) |->
     IF i <= 3 * size * slot THEN buffer[i] ELSE buffer[i + (3 * size)]]

\* C1: after every call the index buffer is exactly 0, 1, ..., 3N-1, N being the
\* number of tracked walls, and _triWallMap maps the tracked ids one-to-one onto
\* the slots 0..N-1.
C1_SlotDensity ==
  LET N == NTracked(geom)
  IN  /\ Len(geom.indexBuffer) = 3 * N
      /\ \A i \in 1..(3 * N) : geom.indexBuffer[i] = i - 1
      /\ {geom.triWallMap[id] : id \in Tracked(geom)} = 0..(N - 1)

\* A wall was removed from below two walls that stay tracked.
C1_Witness ==
  /\ last.path = "remove"
  /\ last.slot = 0
  /\ NTracked(geom) = 2

\* C2: the corner buffers hold 9N values and aLimitedWall 3N values, and the three
\* vertices at the slot of every tracked wall hold the corner coordinates most
\* recently written for that wall, whatever was added or removed since.
C2_BlocksInLockstep ==
  LET N == NTracked(geom)
  IN  /\ Len(geom.aWallCorner1) = 9 * N
      /\ Len(geom.aWallCorner2) = 9 * N
      /\ Len(geom.aLimitedWall) = 3 * N
      /\ \A id \in Tracked(geom) :
           /\ id \in DOMAIN written
           /\ geom.triWallMap[id] \in 0..(N - 1)
           /\ Block(geom.aWallCorner1, 3, geom.triWallMap[id]) = Thrice(written[id].c1)
           /\ Block(geom.aWallCorner2, 3, geom.triWallMap[id]) = Thrice(written[id].c2)

\* Wall 3 stands at its second place, written there by an update, and has moved
\* down to slot 0 by the removal of the walls below it.
C2_Witness ==
  /\ last.path = "remove"
  /\ 3 \in Tracked(geom)
  /\ geom.triWallMap[3] = 0
  /\ written[3].c1 = <<3, 4, 10>>
  /\ Block(geom.aLimitedWall, 1, 0) \in {<<"0", "0", "0">>, <<"1", "1", "1">>}

\* A buffer that keeps its old contents as a prefix.
KeepsPrefix(old, new) == Len(new) >= Len(old) /\ Take(new, Len(old)) = old

(***************************************************************************)
(* The inclusion rules on their own: _includeWall of each class of geometry *)
(* is called for a source and a wall, and the call is recorded in pure.     *)
(***************************************************************************)
MaxElevation == 12

Elevations == {0, 4, MaxElevation}

\* The sources the rules are asked about: two positions, three elevations, two radii.
IncludeSources ==
  {[x |-> 5, y |-> y, elevationZ |-> z, radius |-> r, sourceType |-> "light"] :
     y \in {2, 5}, z \in Elevations, r \in {2, 10}}

\* The walls they are asked about: the walls of the scene, and wall 3 with its
\* bottom raised above the light's usual elevation.
IncludeWalls ==
  WallInputs \cup {[id |-> 3, c |-> Home(3), topZ |-> 8, bottomZ |-> 6,
                    light |-> SENSE_NORMAL, door |-> 0, ds |-> 0]}

GeometryClasses == {"base", "point", "sized", "directional"}

InitInclude ==
  /\ HooksIdle
  /\ source = TheSource
  /\ geom = constructWallGeometry("point", TheSource, <<>>)
  /\ written = EmptyMap
  /\ last = [op |-> "construct", id |-> 0, path |-> "construct", slot |-> 0,
             threw |-> FALSE, again |-> FALSE, afterAdd |-> "no"]
  /\ snap = NoSnap

IncludeWallCall(cls, src, wall) ==
  /\ pure' = [fn |-> "_includeWall", cls |-> cls, source |-> src, wall |-> wall,
              result |-> includeWall([cls |-> cls], src, wall)]
  /\ UNCHANGED <<geomVars, hookVars, patchVars, controlVars>>

NextInclude ==
  \E cls \in GeometryClasses, src \in IncludeSources, wall \in IncludeWalls :
    IncludeWallCall(cls, src, wall)

SpecInclude == InitInclude /\ [][NextInclude]_vars

(***************************************************************************)
(* The static buffer helpers on their own: overwriteBufferAt and            *)
(* removeFromBuffer are called on a buffer, and the call is recorded in     *)
(* pure.                                                                    *)
(***************************************************************************)
MaxLen == 5

MaxIdx == 3

\* Typed arrays of up to MaxLen values
Buffers == UNION {[1..n -> {0, 1}] : n \in 0..MaxLen}

\* The chunks written: one, two or three values
Chunks == {<<7>>, <<7, 8>>, <<7, 8, 9>>}

InitBuffers ==
  /\ HooksIdle
  /\ source = TheSource
  /\ geom = constructWallGeometry("point", TheSource, <<>>)
  /\ written = EmptyMap
  /\ last = [op |-> "construct", id |-> 0, path |-> "construct", slot |-> 0,
             threw |-> FALSE, again |-> FALSE, afterAdd |-> "no"]
  /\ snap = NoSnap

OverwriteBufferAtCall(buffer, data, idx) ==
  LET r == overwriteBufferAt(buffer, data, idx)
  IN  /\ pure' = [fn |-> "overwriteBufferAt", buffer |-> buffer, size |-> Len(data),
                  idx |-> idx, threw |-> r.threw, result |-> r.data]
      /\ UNCHANGED <<geomVars, hookVars, patchVars, controlVars>>

RemoveFromBufferCall(buffer, size, idx) ==
  LET r == removeFromBuffer(buffer, size, idx)
  IN  /\ pure' = [fn |-> "removeFromBuffer", buffer |-> buffer, size |-> size,
                  idx |-> idx, threw |-> r.threw, result |-> r.data]
      /\ UNCHANGED <<geomVars, hookVars, patchVars, controlVars>>

NextBuffers ==
  \/ \E buffer \in Buffers, data \in Chunks, idx \in 0..MaxIdx :
       OverwriteBufferAtCall(buffer, data, idx)
  \/ \E buffer \in Buffers, data \in Chunks, idx \in 0..MaxIdx :
       RemoveFromBufferCall(buffer, Len(data), idx)

SpecBuffers == InitBuffers /\ [][NextBuffers]_vars

(***************************************************************************)
(* The shaders on their own: a factory is called, lightEncoding is called,  *)
(* or a fragment stage colours one fragment; the call is recorded in pure.  *)
(***************************************************************************)
\* Light fractions 0, 1/16, ..., 1
Fractions == 0..One

SenseTypes == {LIMITED_WALL, SENSE_NORMAL, PROXIMATE_WALL, DISTANCE_WALL}

\* The fragments coloured: the light stands at (0, 0) at elevation 4 or 6, the
\* wall's top at 2 and the wall at ratio 2/16 of the triangle; the fragment lies
\* at distance 2 or 4 from the light, before or behind the wall, on terrain at
\* 0, 5 or 8.
FragmentInputs ==
  {[elevation |-> e, uLightPosition |-> <<0, 0, z>>, vBaryX |-> b, fWallRatio |-> 2,
    fWallSenseType |-> t, fThresholdRadius2 |-> r2, vVertexPosition |-> <<d, 0>>,
    fWallHeightsX |-> 2, shadowLight |-> f, outsideShadow |-> FALSE] :
     e \in {0, 5, 8}, z \in {4, 6}, b \in {1, 2, 3}, t \in SenseTypes,
     r2 \in {0, 9}, d \in {2, 4}, f \in {0, One \div 2, One}}

LightPositions == {Undefined, <<5, 5, 4>>}

InitShader ==
  /\ HooksIdle
  /\ source = TheSource
  /\ geom = constructWallGeometry("point", TheSource, <<>>)
  /\ written = EmptyMap
  /\ last = [op |-> "construct", id |-> 0, path |-> "construct", slot |-> 0,
             threw |-> FALSE, again |-> FALSE, afterAdd |-> "no"]
  /\ snap = NoSnap

TestGeometryShaderCreate(lightPosition) ==
  /\ pure' = [fn |-> "TestGeometryShader.create", lightPosition |-> lightPosition,
              result |-> testGeometryShaderCreate(lightPosition)]
  /\ UNCHANGED <<geomVars, hookVars, patchVars, controlVars>>

ShadowWallShaderCreate(uLightPosition) ==
  /\ pure' = [fn |-> "ShadowWallShader.create", lightPosition |-> uLightPosition,
              result |-> shadowWallShaderCreate(uLightPosition)]
  /\ UNCHANGED <<geomVars, hookVars, patchVars, controlVars>>

LightEncodingCall(light, fWallSenseType) ==
  /\ pure' = [fn |-> "lightEncoding", light |-> light,
              fWallSenseType |-> fWallSenseType,
              result |-> lightEncoding(light, fWallSenseType)]
  /\ UNCHANGED <<geomVars, hookVars, patchVars, controlVars>>

PointFragment(in) ==
  /\ pure' = [fn |-> "ShadowWallShader.main", in |-> in,
              fragColor |-> pointFragmentMain(in)]
  /\ UNCHANGED <<geomVars, hookVars, patchVars, controlVars>>

SizedFragment(in, outside) ==
  /\ pure' = [fn |-> "SizedPointSourceShadowWallShader.main",
              in |-> [in EXCEPT !.outsideShadow = outside],
              fragColor |-> sizedFragmentMain([in EXCEPT !.outsideShadow = outside])]
  /\ UNCHANGED <<geomVars, hookVars, patchVars, controlVars>>

\* The directional stage reads neither the terrain against the light nor a
\* threshold: it colours the fragments on level ground.
DirectionalFragment(in, outside) ==
  /\ pure' = [fn |-> "DirectionalShadowWallShader.main",
              in |-> [in EXCEPT !.outsideShadow = outside],
              fragColor |-> directionalFragmentMain([in EXCEPT !.outsideShadow = outside])]
  /\ UNCHANGED <<geomVars, hookVars, patchVars, controlVars>>

\* Two wall triangles cover one fragment: the second colour is blended into the
\* first.  The fractions are 0, 0.5 and 1, whose products are whole sixteenths.
ComposeCall(light1, type1, light2, type2) ==
  /\ pure' = [fn |-> "multiply", light1 |-> light1, type1 |-> type1,
              light2 |-> light2, type2 |-> type2,
              result |-> multiplyBlend(lightEncoding(light1, type1),
                                       lightEncoding(light2, type2))]
  /\ UNCHANGED <<geomVars, hookVars, patchVars, controlVars>>

\* A mesh is constructed for a light source, with no shader or with one made
\* for some light position.
MeshConstruct(state, given) ==
  /\ pure' = [fn |-> "ShadowWallPointSourceMesh", given |-> given # Undefined,
              mesh |-> ShadowWallPointSourceMesh(
                         state,
                         IF given = Undefined THEN Undefined
                         ELSE shadowWallShaderCreate(given))]
  /\ UNCHANGED <<geomVars, hookVars, patchVars, controlVars>>

\* The source of the mesh made last moves, or stays, and the mesh is told.
MeshUpdateLightPosition(state) ==
  /\ pure.fn \in {"ShadowWallPointSourceMesh",
                  "ShadowWallPointSourceMesh.updateLightPosition"}
  /\ pure' = [fn |-> "ShadowWallPointSourceMesh.updateLightPosition",
              given |-> pure.given,
              mesh |-> updateLightPosition([pure.mesh EXCEPT !.source = state])]
  /\ UNCHANGED <<geomVars, hookVars, patchVars, controlVars>>

NextShader ==
  \/ \E lightPosition \in LightPositions : TestGeometryShaderCreate(lightPosition)
  \/ \E uLightPosition \in LightPositions : ShadowWallShaderCreate(uLightPosition)
  \/ \E light \in Fractions, t \in SenseTypes : LightEncodingCall(light, t)
  \/ \E in \in FragmentInputs : PointFragment(in)
  \/ \E in \in FragmentInputs, outside \in BOOLEAN : SizedFragment(in, outside)
  \/ \E in \in {i \in FragmentInputs : i.elevation = 0 /\ i.fThresholdRadius2 = 0},
        outside \in BOOLEAN : DirectionalFragment(in, outside)
  \/ \E light1, light2 \in {0, One \div 2, One}, type1, type2 \in {LIMITED_WALL, SENSE_NORMAL} :
       ComposeCall(light1, type1, light2, type2)
  \/ \E state \in LightStates, given \in LightPositions : MeshConstruct(state, given)
  \/ \E state \in LightStates : MeshUpdateLightPosition(state)

SpecShader == InitShader /\ [][NextShader]_vars

(***************************************************************************)
(* The penumbra blend of the directional and sized-point fragment stages:   *)
(* a fragment is coloured from the shadow factors of the four penumbra      *)
(* regions (1.0 for a region the fragment is not in).                       *)
(***************************************************************************)
ShadowFactors == {One \div 2, One}

Penumbras ==
  [side1Shadow : ShadowFactors, side2Shadow : ShadowFactors,
   farShadow : ShadowFactors, nearShadow : ShadowFactors]

\* The fragments blended: on level ground, no threshold, before, on or behind the
\* wall, of a limited or a normal wall.
PenumbraInputs ==
  {i \in FragmentInputs :
     /\ i.elevation = 0 /\ i.uLightPosition[3] = 4 /\ i.fThresholdRadius2 = 0
     /\ i.vVertexPosition[1] = 2 /\ i.shadowLight = 0
     /\ i.fWallSenseType \in {LIMITED_WALL, SENSE_NORMAL}}

InitPenumbra ==
  /\ HooksIdle
  /\ source = TheSource
  /\ geom = constructWallGeometry("point", TheSource, <<>>)
  /\ written = EmptyMap
  /\ last = [op |-> "construct", id |-> 0, path |-> "construct", slot |-> 0,
             threw |-> FALSE, again |-> FALSE, afterAdd |-> "no"]
  /\ snap = NoSnap

DirectionalPenumbraFragment(in, outside, p) ==
  /\ \E light \in totalLight(p) :
       LET in1 == [in EXCEPT !.outsideShadow = outside, !.shadowLight = light]
       IN  pure' = [fn |-> "DirectionalShadowWallShader.main", in |-> in1,
                    penumbra |-> p, fragColor |-> directionalFragmentMain(in1)]
  /\ UNCHANGED <<geomVars, hookVars, patchVars, controlVars>>

SizedPenumbraFragment(in, outside, p) ==
  /\ \E light \in totalLight(p) :
       LET in1 == [in EXCEPT !.outsideShadow = outside, !.shadowLight = light]
       IN  pure' = [fn |-> "SizedPointSourceShadowWallShader.main", in |-> in1,
                    penumbra |-> p, fragColor |-> sizedFragmentMain(in1)]
  /\ UNCHANGED <<geomVars, hookVars, patchVars, controlVars>>

NextPenumbra ==
  \/ \E in \in PenumbraInputs, outside \in BOOLEAN, p \in Penumbras :
       DirectionalPenumbraFragment(in, outside, p)
  \/ \E in \in PenumbraInputs, outside \in BOOLEAN, p \in Penumbras :
       SizedPenumbraFragment(in, outside, p)

SpecPenumbra == InitPenumbra /\ [][NextPenumbra]_vars

(***************************************************************************)
(* The shadow patches.  libWrapper itself is not part of the module: whether *)
(* it rejects a second wrapper of the module on a target that already has   *)
(* one (strict) or accepts it is an input of each call.                     *)
(***************************************************************************)
NONE == "none"

POLYGONS == "polygons"

WEBGL == "webgl"

ALGORITHMS == {NONE, POLYGONS, WEBGL}

PolygonTargets == <<"PIXI.LegacyGraphics.prototype.drawShape">>

WebGLTargets ==
  <<"CanvasVisibility.prototype.refreshVisibility",
    "CanvasVisibility.prototype._tearDown",
    "AdaptiveLightingShader.create",
    "RenderedPointSource.prototype._configure",
    "RenderedPointSource.prototype.destroy">>

TargetsOf(algorithm) ==
  IF algorithm = POLYGONS THEN PolygonTargets
  ELSE IF algorithm = WEBGL THEN WebGLTargets
  ELSE <<>>

\* The most ids the module's array is followed to.
MaxIds == 12

\* A patching state is [ids, reg, basic, threw].
PatchState(ids, reg, b, threw) == [ids |-> ids, reg |-> reg, basic |-> b, threw |-> threw]

\* libWrapperShaderIds.forEach(i => libWrapper.unregister(MODULE_ID, i, false))
deregisterShadowPatches(st) ==
  [st EXCEPT !.reg = @ \ {st.ids[i] : i \in 1..Len(st.ids)}]

\* shaderWrap / shaderOverride over the targets of an algorithm, in order:
\* libWrapper.register, then the push of the id it returned.
RECURSIVE shaderRegister(_, _, _, _)
shaderRegister(st, targets, i, strict) ==
  IF i > Len(targets) THEN st
  ELSE IF strict /\ targets[i] \in st.reg THEN [st EXCEPT !.threw = TRUE]
  ELSE shaderRegister([st EXCEPT !.reg = @ \cup {targets[i]},
                                 !.ids = Append(@, targets[i])],
                      targets, i + 1, strict)

registerShadowPatches(st, algorithm, strict) ==
  IF algorithm \notin ALGORITHMS THEN st
  ELSE shaderRegister(deregisterShadowPatches(st), TargetsOf(algorithm), 1, strict)

\* registerPatches: the wrappers that are always in effect, then the clearing of
\* the array of shader ids.
registerPatches(st, strict) ==
  IF strict /\ st.basic THEN [st EXCEPT !.threw = TRUE]
  ELSE [st EXCEPT !.basic = TRUE, !.ids = <<>>]

PatchNow == PatchState(libWrapperShaderIds, libWrapper, basic, FALSE)

PatchesBecome(st) ==
  /\ libWrapperShaderIds' = st.ids
  /\ libWrapper' = st.reg
  /\ basic' = st.basic

InitPatches ==
  /\ HooksIdle
  /\ source = TheSource
  /\ geom = constructWallGeometry("point", TheSource, <<>>)
  /\ written = EmptyMap
  /\ last = [op |-> "construct", id |-> 0, path |-> "construct", slot |-> 0,
             threw |-> FALSE, again |-> FALSE, afterAdd |-> "no"]
  /\ snap = NoSnap

RegisterPatches(strict) ==
  LET st == registerPatches(PatchNow, strict)
  IN  /\ PatchesBecome(st)
      /\ patch' = [fn |-> "registerPatches", algorithm |-> patch.algorithm,
                   threw |-> st.threw]
      /\ UNCHANGED <<geomVars, hookVars, pure, controlVars>>

RegisterShadowPatches(algorithm, strict) ==
  LET st == registerShadowPatches(PatchNow, algorithm, strict)
  IN  /\ Len(libWrapperShaderIds) + Len(TargetsOf(algorithm)) <= MaxIds
      /\ PatchesBecome(st)
      /\ patch' = [fn |-> "registerShadowPatches", algorithm |-> algorithm,
                   threw |-> st.threw]
      /\ UNCHANGED <<geomVars, hookVars, pure, controlVars>>

NextPatches ==
  \/ \E strict \in BOOLEAN : RegisterPatches(strict)
  \/ \E algorithm \in ALGORITHMS, strict \in BOOLEAN :
       RegisterShadowPatches(algorithm, strict)

SpecPatches == InitPatches /\ [][NextPatches]_vars

(***************************************************************************)
(* The fly control of the token tools.                                      *)
(***************************************************************************)
FLY_BUTTON == "fly-button"

\* The token tools the host builds, before any module adds to them: any of the
\* host's three tools, in the host's order.
HostTools ==
  {<<>>, <<"select">>, <<"target">>, <<"ruler">>, <<"select", "target">>,
   <<"select", "ruler">>, <<"target", "ruler">>, <<"select", "target", "ruler">>}

\* tools.findIndex(b => b.name === SETTINGS.FLY_BUTTON), 1-based, 0 for none
findIndex(tools) ==
  IF \E i \in 1..Len(tools) : tools[i] = FLY_BUTTON
  THEN CHOOSE i \in 1..Len(tools) :
         tools[i] = FLY_BUTTON /\ \A j \in 1..(i - 1) : tools[j] # FLY_BUTTON
  ELSE 0

\* tools.splice(index, 1)
splice(tools, index) ==
  [i \in 1..(Len(tools) - 1) |-> IF i < index THEN tools[i] ELSE tools[i + 1]]

\* getSceneControlButtonsHook(controls) on the token tools of controls
getSceneControlButtonsHook(tools, scene, flyButton, autoElevation) ==
  IF ~scene \/ ~flyButton \/ ~autoElevation THEN tools
  ELSE Append(tools, FLY_BUTTON)

\* updateFlyTokenControl(enable); given is whether enable was passed, and
\* autoElevation the scene setting read when it was not.
updateFlyTokenControl(tools, given, enable, autoElevation) ==
  LET enabled == IF given THEN enable ELSE autoElevation
      flyIndex == findIndex(tools)
  IN  IF enabled /\ flyIndex = 0 THEN Append(tools, FLY_BUTTON)
      ELSE IF flyIndex # 0 THEN splice(tools, flyIndex)
      ELSE tools

InitControls ==
  /\ SceneIdle
  /\ tokenTools \in HostTools
  /\ flyCall = NoFlyCall
  /\ source = TheSource
  /\ geom = constructWallGeometry("point", TheSource, <<>>)
  /\ written = EmptyMap
  /\ last = [op |-> "construct", id |-> 0, path |-> "construct", slot |-> 0,
             threw |-> FALSE, again |-> FALSE, afterAdd |-> "no"]
  /\ snap = NoSnap

\* The host builds the scene controls anew and the hook adds to them.
GetSceneControlButtons(tools, scene, flyButton, autoElevation) ==
  /\ tokenTools' = getSceneControlButtonsHook(tools, scene, flyButton, autoElevation)
  /\ flyCall' = [fn |-> "getSceneControlButtons"]
  /\ UNCHANGED <<geomVars, hookVars, pure, patchVars>>

\* flyCall keeps whether the call passed its argument, the resolved argument, that
\* of the call before it when that was an updateFlyTokenControl too, and the tools
\* as that call left them.
UpdateFlyTokenControl(given, enable, autoElevation) ==
  /\ tokenTools' = updateFlyTokenControl(tokenTools, given, enable, autoElevation)
  /\ flyCall' = [fn |-> "updateFlyTokenControl",
                 given |-> given,
                 enable |-> IF given THEN enable ELSE autoElevation,
                 again |-> flyCall.fn = "updateFlyTokenControl",
                 before |-> IF flyCall.fn = "updateFlyTokenControl"
                            THEN [enable |-> flyCall.enable, tools |-> tokenTools]
                            ELSE [enable |-> FALSE, tools |-> <<>>]]
  /\ UNCHANGED <<geomVars, hookVars, pure, patchVars>>

NextControls ==
  \/ \E tools \in HostTools, scene, flyButton, autoElevation \in BOOLEAN :
       GetSceneControlButtons(tools, scene, flyButton, autoElevation)
  \/ \E given, enable, autoElevation \in BOOLEAN :
       UpdateFlyTokenControl(given, enable, autoElevation)

SpecControls == InitControls /\ [][NextControls]_vars

(***************************************************************************)
(* The hooks' contracts.                                                    *)
(***************************************************************************)
\* The walls of the scene that a point light in the state of light l includes.
IncludedFor(l) ==
  {id \in DOMAIN placeables : pointIncludeWall(lightSources[l], placeables[id])}

HasGeometry(l) ==
  lightSources[l].listed /\ ev[l].has /\ ev[l].wallGeometry.cls # "undefined"

\* C3: after refreshAmbientLightHook has run for a light with refreshPosition,
\* refreshElevation or refreshRadius raised, the wall geometry of that light
\* tracks exactly the walls of the scene that are included for the light's new
\* position, elevation and radius.
C3_RefreshReevaluates ==
  (/\ hook.name = "refreshAmbientLight"
   /\ hook.flags \cap {"refreshPosition", "refreshElevation", "refreshRadius"} # {}
   /\ HasGeometry(hook.light))
    => Tracked(ev[hook.light].wallGeometry) = IncludedFor(hook.light)

\* C4: after updateWallHook has run, no light's wall geometry tracks a wall of
\* the scene that is an open door.
C4_NoOpenDoorTracked ==
  hook.name = "updateWall"
    => \A l \in Lights :
         HasGeometry(l)
           => \A id \in Tracked(ev[l].wallGeometry) \cap DOMAIN placeables :
                ~(isDoor(placeables[id]) /\ isOpen(placeables[id]))

\* C5: in every reachable state, addWall on a wall that is already tracked or
\* fails the inclusion predicate changes no buffer and no map entry; otherwise
\* each attribute buffer grows by exactly one 3-vertex block and the index buffer
\* by one triple, the wall gets the slot equal to the previous tracked count, and
\* every existing block and slot is unchanged.
C5_AddWall ==
  \A wall \in WallInputs :
    LET g2 == addWall(geom, source, wall).g
    IN  IF wall.id \in Tracked(geom) \/ ~includeWall(geom, source, wall)
        THEN g2 = geom
        ELSE /\ Len(g2.aWallCorner1) = Len(geom.aWallCorner1) + 9
             /\ Len(g2.aWallCorner2) = Len(geom.aWallCorner2) + 9
             /\ Len(g2.aLimitedWall) = Len(geom.aLimitedWall) + 3
             /\ Len(g2.indexBuffer) = Len(geom.indexBuffer) + 3
             /\ KeepsPrefix(geom.aWallCorner1, g2.aWallCorner1)
             /\ KeepsPrefix(geom.aWallCorner2, g2.aWallCorner2)
             /\ KeepsPrefix(geom.aLimitedWall, g2.aLimitedWall)
             /\ KeepsPrefix(geom.indexBuffer, g2.indexBuffer)
             /\ Tracked(g2) = Tracked(geom) \cup {wall.id}
             /\ g2.triWallMap[wall.id] = NTracked(geom)
             /\ \A id \in Tracked(geom) : g2.triWallMap[id] = geom.triWallMap[id]

\* An addWall appended the third wall.
C5_Witness ==
  /\ last.op = "addWall"
  /\ last.path = "append"
  /\ NTracked(geom) = 3
  /\ geom.triWallMap[last.id] = 2

\* C6: in every reachable state, updateWall on an untracked wall has exactly the
\* effect of addWall, and updateWall on a tracked wall that no longer satisfies the
\* inclusion predicate has exactly the effect of removeWall: the triangle count
\* decreases by 1.
C6_UpdateRedirects ==
  \A wall \in WallInputs, changes \in ChangeSets :
    LET g2 == updateWall(geom, source, wall, changes).g
    IN  /\ wall.id \notin Tracked(geom) => g2 = addWall(geom, source, wall).g
        /\ (wall.id \in Tracked(geom) /\ ~includeWall(geom, source, wall)) =>
             /\ g2 = removeWall(geom, wall.id).g
             /\ wall.id \notin Tracked(g2)
             /\ NTracked(g2) = NTracked(geom) - 1
             /\ Len(g2.indexBuffer) = Len(geom.indexBuffer) - 3

\* An updateWall removed a tracked wall that is no longer included.
C6_Witness ==
  /\ last.op = "updateWall"
  /\ last.path = "remove"
  /\ NTracked(geom) = 2

C8_RemoveWall ==
  \A rid \in Tracked(geom) :
    LET g2 == removeWall(geom, rid).g
        s == geom.triWallMap[rid]
    IN  /\ g2.aWallCorner1 = WithoutBlock(geom.aWallCorner1, 3, s)
        /\ g2.aWallCorner2 = WithoutBlock(geom.aWallCorner2, 3, s)
        /\ g2.aLimitedWall = WithoutBlock(geom.aLimitedWall, 1, s)
        /\ Tracked(g2) = Tracked(geom) \ {rid}
        /\ \A id \in Tracked(geom) \ {rid} :
             /\ g2.triWallMap[id] =
                  IF geom.triWallMap[id] < s THEN geom.triWallMap[id]
                  ELSE geom.triWallMap[id] - 1
             /\ Block(g2.aWallCorner1, 3, g2.triWallMap[id])
                  = Block(geom.aWallCorner1, 3, geom.triWallMap[id])
             /\ Block(g2.aWallCorner2, 3, g2.triWallMap[id])
                  = Block(geom.aWallCorner2, 3, geom.triWallMap[id])
             /\ Block(g2.aLimitedWall, 1, g2.triWallMap[id])
                  = Block(geom.aLimitedWall, 1, geom.triWallMap[id])

\* A removeWall took the wall of the middle slot from between two others.
C8_Witness ==
  /\ last.op = "removeWall"
  /\ last.path = "remove"
  /\ last.slot = 1
  /\ NTracked(geom) = 2

\* C9: in every reachable state, removeWall with an id that is not tracked changes
\* neither the map nor any buffer, and a second removeWall(id) right after a first
\* leaves the state as the first left it.
C9_RemoveIdempotent ==
  \A rid \in WallIds :
    LET g1 == removeWall(geom, rid).g
    IN  /\ rid \notin Tracked(geom) => g1 = geom
        /\ removeWall(g1, rid).g = g1
        /\ (last.op = "removeWall" /\ last.id = rid) => g1 = geom

\* A removeWall(id) that removed a wall was followed by a second removeWall(id).
C9_Witness ==
  /\ last.again
  /\ last.path = "untracked"
  /\ NTracked(geom) = 2

\* C10: addWall(wall) of an untracked wall followed immediately by
\* removeWall(wall.id) leaves every attribute buffer, the index buffer and the
\* id-to-slot map as they were before the add.
C10_AddRemoveRoundTrip ==
  (last.op = "removeWall" /\ last.afterAdd # "no") => geom = snap

\* An addWall appended a third wall and the removeWall right after it removed it.
C10_Witness ==
  /\ last.op = "removeWall"
  /\ last.afterAdd = "append"
  /\ last.path = "remove"
  /\ NTracked(geom) = 2

(***************************************************************************)
(* refreshWalls, construction and the inclusion rules.                      *)
(***************************************************************************)
\* The block a wall's current data computes for each of the three buffers.
ComputedBlocks(g, wall) ==
  [c1 |-> Thrice(coords1(wall)), c2 |-> Thrice(coords2(wall)),
   ltd |-> <<BoolToFloat(isLimited(g, wall)), BoolToFloat(isLimited(g, wall)),
             BoolToFloat(isLimited(g, wall))>>]

HoldsComputed(g, wall) ==
  LET slot == g.triWallMap[wall.id]
      want == ComputedBlocks(g, wall)
  IN  /\ Block(g.aWallCorner1, 3, slot) = want.c1
      /\ Block(g.aWallCorner2, 3, slot) = want.c2
      /\ Block(g.aLimitedWall, 1, slot) = want.ltd

\* C11: in every reachable state, refreshWalls(walls) leaves every wall of the
\* list tracked if and only if the wall satisfies the inclusion predicate for the
\* source, and leaves in the block of every tracked wall of the list the corner
\* coordinates and the limited flag computed from that wall's data.
C11_RefreshWallsExact ==
  \A walls \in WallLists :
    LET r == refreshWalls(geom, source, walls)
    IN  \A i \in 1..Len(walls) :
          /\ (walls[i].id \in Tracked(r.g)) <=> includeWall(r.g, source, walls[i])
          /\ (walls[i].id \in Tracked(r.g)) => HoldsComputed(r.g, walls[i])

\* Every order of every wall list.
Orders == {p \in [WallIds -> WallIds] : \A i, j \in WallIds : p[i] = p[j] => i = j}

OrderedLists == {[i \in WallIds |-> ws[p[i]]] : ws \in WallLists, p \in Orders}

\* C12: a geometry constructed from a wall list tracks exactly the walls of the
\* list that satisfy the inclusion predicate; the k-th included wall of the list
\* (counting from 0) has slot k, and the index buffer is the triples
\* 3k, 3k+1, 3k+2 for k = 0..N-1.  Checked where a geometry has just been
\* constructed, for the construction of every list in every order.
C12_ConstructTracksIncluded ==
  last.op = "construct" =>
    \A ws \in OrderedLists :
      LET g == constructWallGeometry(geom.cls, source, ws)
          inc(i) == includeWall(g, source, ws[i])
          N == Cardinality({i \in 1..Len(ws) : inc(i)})
      IN  /\ Tracked(g) = {ws[i].id : i \in {j \in 1..Len(ws) : inc(j)}}
          /\ \A i \in 1..Len(ws) :
                inc(i) => g.triWallMap[ws[i].id] =
                            Cardinality({j \in 1..(i - 1) : inc(j)})
          /\ Len(g.indexBuffer) = 3 * N
          /\ \A k \in 0..(N - 1) :
                SubSeq(g.indexBuffer, (3 * k) + 1, (3 * k) + 3)
                  = <<3 * k, (3 * k) + 1, (3 * k) + 2>>

\* A constructed geometry that skipped an excluded wall: wall 2 is left out and
\* wall 3 follows wall 1 at slot 1.
C12_Witness ==
  /\ last.op = "construct"
  /\ Tracked(geom) = {1, 3}
  /\ geom.triWallMap[1] = 0
  /\ geom.triWallMap[3] = 1
  /\ geom.indexBuffer = <<0, 1, 2, 3, 4, 5>>

\* The four conditions of the inclusion rule, each stated on its own.
OpenDoor(wall) == wall.door > 0 /\ wall.ds = 1

BandOverlaps(src, wall) ==
  /\ wall.topZ > wall.bottomZ /\ wall.topZ > MinCanvasE
  /\ src.elevationZ > wall.bottomZ /\ src.elevationZ > MinCanvasE

\* The light position lies on the line through the (axis-aligned) wall.
OnLineOf(src, wall) ==
  IF wall.c[2] = wall.c[4] THEN src.y = wall.c[2] ELSE src.x = wall.c[1]

\* Some point of the wall's segment lies within the light's bounds.
ReachesBounds(src, wall) ==
  \E x \in Min(wall.c[1], wall.c[3])..Max(wall.c[1], wall.c[3]),
     y \in Min(wall.c[2], wall.c[4])..Max(wall.c[2], wall.c[4]) :
    /\ src.x - src.radius <= x /\ x <= src.x + src.radius
    /\ src.y - src.radius <= y /\ y <= src.y + src.radius

\* C13: _includeWall of a point or sized-point geometry returns true for a source
\* and a wall if and only if the wall is not an open door, its span overlaps the
\* band (min(wallTop, lightZ) > max(wallBottom, minCanvasElevation)), it is not
\* collinear with the light position, and its segment meets the light's bounds.
C13_PointInclusion ==
  (pure.fn = "_includeWall" /\ pure.cls \in {"point", "sized"})
    => (pure.result <=>
          /\ ~OpenDoor(pure.wall)
          /\ BandOverlaps(pure.source, pure.wall)
          /\ ~OnLineOf(pure.source, pure.wall)
          /\ ReachesBounds(pure.source, pure.wall))

\* A sized-point geometry turned a wall down for the bounds alone.
C13_Witness ==
  /\ pure.fn = "_includeWall"
  /\ pure.cls = "sized"
  /\ ~pure.result
  /\ ~OpenDoor(pure.wall)
  /\ BandOverlaps(pure.source, pure.wall)
  /\ ~OnLineOf(pure.source, pure.wall)
  /\ ~ReachesBounds(pure.source, pure.wall)

\* C14: _includeWall of a directional geometry returns false for a wall that is
\* an open door, and for a wall whose span does not overlap the band between the
\* scene's minimum elevation and the light's elevation.
C14_DirectionalBaseExclusions ==
  (/\ pure.fn = "_includeWall"
   /\ pure.cls = "directional"
   /\ (OpenDoor(pure.wall) \/ ~BandOverlaps(pure.source, pure.wall)))
    => ~pure.result

\* The wall is turned down by the band test: its clamped top is not above its
\* clamped bottom.
BandExcludes(src, wall) ==
  Min(wall.topZ, src.elevationZ) <= Max(wall.bottomZ, MinCanvasE)

RaisedTo(src, z) == [src EXCEPT !.elevationZ = z]

\* C15 as stated: when _includeWall has turned a wall down and the band test
\* excludes it, _includeWall of the same geometry class for the same wall and the
\* light raised above the wall's top, x and y unchanged, turns it down as well.
C15_RaisingKeepsExcluded ==
  (pure.fn = "_includeWall" /\ ~pure.result /\ BandExcludes(pure.source, pure.wall))
    => \A z \in Elevations :
         (z > pure.source.elevationZ /\ z > pure.wall.topZ)
           => ~includeWall([cls |-> pure.cls], RaisedTo(pure.source, z), pure.wall)

\* C15, amended: when _includeWall has turned a wall down and the band test
\* excludes it, the wall stays excluded at every lower elevation of the light, and
\* raising the light above the wall's top can include the wall only if the
\* wall's own top lies above max(wallBottom, minCanvasElevation), or the geometry
\* is directional, whose rule has no band test.
C15_BandMonotone ==
  (pure.fn = "_includeWall" /\ ~pure.result /\ BandExcludes(pure.source, pure.wall))
    => \A z \in Elevations :
         /\ z <= pure.source.elevationZ
              => ~includeWall([cls |-> pure.cls], RaisedTo(pure.source, z), pure.wall)
         /\ (/\ z > pure.wall.topZ
             /\ includeWall([cls |-> pure.cls], RaisedTo(pure.source, z), pure.wall))
              => \/ pure.wall.topZ > Max(pure.wall.bottomZ, MinCanvasE)
                 \/ pure.cls = "directional"

\* A wall turned down by the band test alone for a light on the ground, which the
\* same rule includes once the light is raised above the wall's top.
C15_Witness ==
  /\ pure.fn = "_includeWall"
  /\ pure.cls = "base"
  /\ ~pure.result
  /\ ~OpenDoor(pure.wall)
  /\ BandExcludes(pure.source, pure.wall)
  /\ pure.source.elevationZ = 0
  /\ pure.wall.topZ = 8
  /\ includeWall([cls |-> "base"], RaisedTo(pure.source, MaxElevation), pure.wall)

\* C16: when overwriteBufferAt or removeFromBuffer has been called with a buffer
\* whose length is not a multiple of the element size, or with an element index
\* that is not an existing element (index * size >= buffer length), the call has
\* not thrown and has returned the buffer with its length and contents unchanged.
C16_MismatchLeavesBuffer ==
  (/\ pure.fn \in {"overwriteBufferAt", "removeFromBuffer"}
   /\ \/ (Len(pure.buffer) % pure.size) # 0
      \/ pure.idx * pure.size >= Len(pure.buffer))
    => (~pure.threw /\ pure.result = pure.buffer)

(***************************************************************************)
(* The shaders' contracts.                                                  *)
(***************************************************************************)
\* C17: a shader factory called without a light position has reported an error,
\* and has not returned a shader whose light position is the default (0, 0, 0).
C17_CreateNeedsLightPosition ==
  (/\ pure.fn \in {"TestGeometryShader.create", "ShadowWallShader.create"}
   /\ pure.lightPosition = Undefined)
    => /\ pure.result.reported
       /\ ~(~pure.result.threw /\ pure.result.uLightPosition = <<0, 0, 0>>)

IsFragment == pure.fn \in {"ShadowWallShader.main", "SizedPointSourceShadowWallShader.main"}

\* C18 as stated: a fragment whose terrain elevation is greater than the light's
\* elevation is coloured fully lit, (1, 1, 1, 1), by both fragment stages.
C18_AboveLightIsLit ==
  (IsFragment /\ pure.in.elevation > pure.in.uLightPosition[3])
    => pure.fragColor = <<One, One, One, One>>

\* C18, amended: the point stage colours a fragment whose terrain elevation is
\* greater than the light's elevation with the full-shadow encoding, (0, 1, 1, 1)
\* for a wall that is not limited and (1, 0.5, 0, 1) for a limited wall, wherever
\* the fragment lies; the sized-point stage has no such test, and its colour does
\* not depend on the light's elevation.
C18_AboveLightIsShadow ==
  /\ (pure.fn = "ShadowWallShader.main" /\ pure.in.elevation > pure.in.uLightPosition[3])
       => pure.fragColor = IF pure.in.fWallSenseType = LIMITED_WALL
                           THEN <<One, One \div 2, 0, One>>
                           ELSE <<0, One, One, One>>
  /\ pure.fn = "SizedPointSourceShadowWallShader.main"
       => pure.fragColor =
            sizedFragmentMain([pure.in EXCEPT !.uLightPosition = <<0, 0, pure.in.elevation>>])

\* The point stage coloured a fragment above the light, before a limited wall.
C18_Witness ==
  /\ pure.fn = "ShadowWallShader.main"
  /\ pure.in.elevation > pure.in.uLightPosition[3]
  /\ pure.in.vBaryX > pure.in.fWallRatio
  /\ pure.in.fWallSenseType = LIMITED_WALL
  /\ pure.fragColor = <<One, One \div 2, 0, One>>

\* The wall has a threshold and the fragment lies within it.
WithinThreshold ==
  /\ pure.in.fWallSenseType \in {PROXIMATE_WALL, DISTANCE_WALL}
  /\ pure.in.fThresholdRadius2 # 0
  /\ (pure.in.vVertexPosition[1] * pure.in.vVertexPosition[1]) < pure.in.fThresholdRadius2

\* C19 as stated: both fragment stages colour a fragment within the threshold of
\* a proximate or distance wall fully lit, whatever its terrain elevation and its
\* place in the shadow.
C19_ThresholdIsLit ==
  (IsFragment /\ WithinThreshold) => pure.fragColor = <<One, One, One, One>>

\* C19, amended: the sized-point stage colours a fragment within the threshold of
\* a proximate or distance wall fully lit whatever its terrain elevation and its
\* place in the shadow; the point stage does so when the terrain elevation is not
\* greater than the light's elevation, and colours the fragment with the
\* full-shadow encoding (0, 1, 1, 1) when it is.
C19_ThresholdIsLitBelowLight ==
  /\ (pure.fn = "SizedPointSourceShadowWallShader.main" /\ WithinThreshold)
       => pure.fragColor = <<One, One, One, One>>
  /\ (pure.fn = "ShadowWallShader.main" /\ WithinThreshold)
       => pure.fragColor = IF pure.in.elevation > pure.in.uLightPosition[3]
                           THEN <<0, One, One, One>>
                           ELSE <<One, One, One, One>>

\* The sized-point stage let a fragment in full shadow behind a distance wall
\* through because it lies within the threshold.
C19_Witness ==
  /\ pure.fn = "SizedPointSourceShadowWallShader.main"
  /\ WithinThreshold
  /\ pure.in.vBaryX < pure.in.fWallRatio
  /\ ~pure.in.outsideShadow
  /\ pure.in.shadowLight = 0
  /\ pure.in.elevation > pure.in.uLightPosition[3]
  /\ pure.fragColor = <<One, One, One, One>>

C21_MultiplyComposes ==
  pure.fn = "multiply" =>
    /\ (pure.type1 # LIMITED_WALL /\ pure.type2 # LIMITED_WALL)
         => pure.result[1] * One = pure.light1 * pure.light2
    /\ (pure.type1 = LIMITED_WALL /\ pure.type2 = LIMITED_WALL)
         => /\ pure.result[3] * One = pure.light1 * pure.light2
            /\ pure.result[1] = One
    /\ (pure.light1 = One \div 2 /\ pure.light2 = One \div 2
         /\ pure.type1 = pure.type2)
         => IF pure.type1 = LIMITED_WALL
            THEN pure.result[3] = One \div 4 /\ pure.result[1] = One
            ELSE pure.result[1] = One \div 4

\* A limited wall at 0.5 composed with itself.
C21_Witness ==
  /\ pure.fn = "multiply"
  /\ pure.type1 = LIMITED_WALL /\ pure.type2 = LIMITED_WALL
  /\ pure.light1 = One \div 2 /\ pure.light2 = One \div 2
  /\ pure.result[1] = One
  /\ pure.result[3] = One \div 4

OnTheWall == pure.in.vBaryX = pure.in.fWallRatio

\* C22 as stated: a fragment exactly on the wall (vBary.x == fWallRatio) is
\* coloured fully lit, (1, 1, 1, 1), by the point and directional fragment stages.
C22_OnWallIsLit ==
  (pure.fn \in {"ShadowWallShader.main", "DirectionalShadowWallShader.main"} /\ OnTheWall)
    => pure.fragColor = <<One, One, One, One>>

\* C22, amended: the exit for fragments before the wall takes vBary.x > fWallRatio
\* only, so a fragment exactly on the wall is coloured like a fragment behind it:
\* by the point stage with full shadow when the terrain is above the light, fully
\* lit when within a threshold or on terrain above the wall's top, and with the
\* encoding of its shadow's light fraction otherwise; by the directional stage
\* fully lit when outside the shadow's near and far ends and with the encoding of
\* its light fraction otherwise.
C22_OnWallIsBehind ==
  /\ (pure.fn = "ShadowWallShader.main" /\ OnTheWall)
       => pure.fragColor =
            IF pure.in.elevation > pure.in.uLightPosition[3]
            THEN lightEncoding(0, pure.in.fWallSenseType)
            ELSE IF WithinThreshold \/ pure.in.elevation > pure.in.fWallHeightsX
            THEN <<One, One, One, One>>
            ELSE lightEncoding(pure.in.shadowLight, pure.in.fWallSenseType)
  /\ (pure.fn = "DirectionalShadowWallShader.main" /\ OnTheWall)
       => pure.fragColor =
            IF pure.in.outsideShadow THEN <<One, One, One, One>>
            ELSE lightEncoding(pure.in.shadowLight, pure.in.fWallSenseType)

\* The point stage coloured a fragment on the wall with full shadow.
C22_Witness ==
  /\ pure.fn = "ShadowWallShader.main"
  /\ OnTheWall
  /\ pure.in.elevation <= pure.in.uLightPosition[3]
  /\ pure.in.shadowLight = 0
  /\ pure.in.fWallSenseType = SENSE_NORMAL
  /\ pure.fragColor = <<0, One, One, One>>

\* The fragment reached the blend: behind or on the wall and within the shadow.
Blended ==
  /\ pure.fn \in {"DirectionalShadowWallShader.main",
                  "SizedPointSourceShadowWallShader.main"}
  /\ pure.in.vBaryX <= pure.in.fWallRatio
  /\ ~pure.in.outsideShadow

\* The penumbra regions the fragment lies in, each letting half the light through.
HalfLit(p) ==
  {r \in {"side1Shadow", "side2Shadow", "farShadow", "nearShadow"} : p[r] = One \div 2}

\* C23: when a fragment of the directional or sized-point stage lies in exactly
\* two penumbra regions that each let 50% of the light through, the fragment is
\* coloured with the encoding of a light fraction of 25%.
C23_PenumbrasMultiplyLight ==
  (Blended /\ Cardinality(HalfLit(pure.penumbra)) = 2)
    => pure.fragColor = lightEncoding(One \div 4, pure.in.fWallSenseType)

\* C24: after destroyAmbientLightHook has run for an initialised light, the
\* record of the light refers to no wall geometry, no shadow mesh, no shadow
\* renderer and no shadow quad mesh: each was destroyed and its reference cleared.
C24_DestroyClearsAll ==
  (hook.name = "destroyAmbientLight" /\ ev[hook.light].has)
    => /\ ev[hook.light].wallGeometry.cls = "undefined"
       /\ ev[hook.light].shadowMesh = "undefined"
       /\ ev[hook.light].shadowRenderer = "undefined"
       /\ ev[hook.light].shadowQuadMesh = "undefined"

\* A listed light whose destroy hook has run and that was not initialised since.
Destroyed(l) ==
  lightSources[l].listed /\ ev[l].has /\ ev[l].wallGeometry.cls = "undefined"

\* C25: a wall-created, wall-updated, wall-deleted or light-refresh hook that
\* runs while some light is destroyed ends without an exception, leaves the
\* record of the destroyed light as it is, and is applied to every other light:
\* after a wall is deleted no light's geometry tracks it, and after a wall is
\* created every light that includes it tracks it.
C25_EventsAfterDestroy ==
  (/\ hook.name \in {"createWall", "updateWall", "deleteWall", "refreshAmbientLight"}
   /\ \E l \in Lights : Destroyed(l)
   /\ hook.name = "refreshAmbientLight" => Destroyed(hook.light))
    => /\ ~hook.threw
       /\ hook.name = "deleteWall"
            => \A l \in Lights :
                 HasGeometry(l) => hook.wall \notin Tracked(ev[l].wallGeometry)
       /\ hook.name = "createWall"
            => \A l \in Lights :
                 (HasGeometry(l) /\ hook.wall \in IncludedFor(l))
                   => hook.wall \in Tracked(ev[l].wallGeometry)

\* C26: in every reachable state, the shadows container holds at most one quad
\* mesh for each light.
C26_OneQuadPerLight ==
  \A l \in Lights : EVshadows[l] <= 1

\* The walls of an id are limited for the light channel or not, whatever else
\* changes about them.
LimitedId(id) == LightOf(id) = SENSE_LIMITED

\* C27: in every reachable state, the aLimitedWall values at the slot of each
\* tracked wall are 1 when the wall is limited for the source's channel and 0
\* otherwise, and hasLimitedWalls is true exactly when some tracked wall is
\* limited.
C27_LimitedFlags ==
  /\ \A id \in Tracked(geom) :
       Block(geom.aLimitedWall, 1, geom.triWallMap[id])
         = Thrice(<<BoolToFloat(LimitedId(id))>>)
  /\ hasLimitedWalls(geom) <=> (\E id \in Tracked(geom) : LimitedId(id))

\* C28: a point-source shadow mesh constructed without a shader has, right after
\* construction, a shader whose uLightPosition is the source's (x, y, elevationZ).
C28_MeshLightPosition ==
  (pure.fn = "ShadowWallPointSourceMesh" /\ ~pure.given)
    => pure.mesh.shader.uLightPosition = fromPointSource(pure.mesh.source)

\* The shader targets, and those of them that hold a wrapper of the module.
ShaderTargets ==
  {PolygonTargets[i] : i \in 1..Len(PolygonTargets)}
    \cup {WebGLTargets[i] : i \in 1..Len(WebGLTargets)}

\* C29: in every reachable state after a registerShadowPatches call, the shader
\* targets that hold a wrapper of the module are exactly those of the algorithm
\* selected last: none for NONE, drawShape for POLYGONS, the five WebGL targets
\* for WEBGL.
C29_OnlySelectedRegistered ==
  patch.algorithm \in ALGORITHMS
    => libWrapper \cap ShaderTargets
         = {TargetsOf(patch.algorithm)[i] : i \in 1..Len(TargetsOf(patch.algorithm))}

\* How often the fly control is among the tools.
FlyCount(tools) == Cardinality({i \in 1..Len(tools) : tools[i] = FLY_BUTTON})

\* C30: after updateFlyTokenControl with enable true the token tools hold the
\* fly control exactly once, after one with enable false not at all, and a call
\* with the argument of the call before it leaves the tools as that call left
\* them.
C30_FlyControlFollowsEnable ==
  flyCall.fn = "updateFlyTokenControl"
    => /\ FlyCount(tokenTools) = (IF flyCall.enable THEN 1 ELSE 0)
       /\ (flyCall.again /\ flyCall.before.enable = flyCall.enable)
            => tokenTools = flyCall.before.tools

=============================================================================
